---- MODULE Spec2Model ----
(***************************************************************************)
(* FleetCode main process (src/main.ts, the version that starts at line    *)
(* 529): the persisted session collection, the in-memory PTY map, the      *)
(* readiness driver of every spawned PTY and the IPC handlers that create, *)
(* reopen, close, delete and rename sessions.  Asynchronous handlers are   *)
(* split at their awaits: every segment between two awaits is one action.  *)
(* The renderer (src/renderer.ts) is modelled by its new-session dialog,   *)
(* its session list with tabs and activity timers, and its server list;    *)
(* the status poller that feeds the server list follows spec.md 4.4.       *)
(***************************************************************************)
EXTENDS Integers, Sequences, FiniteSets, TLC

VARIABLES
  clock,        \* Date.now(), in milliseconds
  persisted,    \* store key "sessions": sequence of PersistedSession
  active,       \* activePtyProcesses: session id -> PTY handle
  ptys,         \* the running PTY processes, indexed by handle
  creating,     \* create-session invocations awaiting createWorktree
  deleting,     \* delete-session invocations awaiting removeWorktree
  worktrees,    \* git: worktree directories that exist
  branches,     \* git: branches that exist
  sent,         \* messages the last handler step sent to the renderer
  nextUuid,     \* source of uuidv4(): number of uuids drawn so far
  nCreates,     \* number of create-session requests received
  nDeletes,     \* number of delete-session requests that reached the await
  nPtys,        \* number of PTY processes spawned so far
  numIn,        \* input of the numbering check
  numOut,       \* result of getNextSessionNumber on numIn
  windowOpen,   \* mainWindow exists and is not destroyed
  brIn,         \* argument of sortBranchesWithMainFirst
  brOut,        \* its result
  brCalled,     \* whether it has been called
  utilIn,       \* arguments of the utility function under check
  utilOut,      \* <<>> before its call, <<result>> after it
  form,         \* renderer: the new-session dialog and its pending calls
  ui,           \* renderer: sessions, tabs, activity timers, server list
  pollers       \* status pollers: session id -> accumulation buffer

vars == <<clock, persisted, active, ptys, creating, deleting, worktrees,
          branches, sent, nextUuid, nCreates, nDeletes, nPtys, numIn, numOut,
          windowOpen, brIn, brOut, brCalled, utilIn, utilOut, form, ui,
          pollers>>

(* The variables of the utility functions that are checked on their own. *)
utilVars == <<brIn, brOut, brCalled, utilIn, utilOut, form, ui, pollers>>

(* The main process and the utility functions. *)
processVars == <<clock, persisted, active, ptys, creating, deleting,
                 worktrees, branches, sent, nextUuid, nCreates, nDeletes,
                 nPtys, numIn, numOut, windowOpen, brIn, brOut, brCalled,
                 utilIn, utilOut>>

(* Everything but the renderer's dialog. *)
mainVars == <<processVars, ui, pollers>>

----------------------------------------------------------------------------
(* Bounds *)
MaxCreates == 2
MaxPtys == 3
MaxDeletes == 1
MaxClock == 2
MaxChunks == 1
MaxDriverCreates == 1
MaxDriverPtys == 3
MaxDriverChunks == 2
MaxErrCreates == 2
MaxWindowCreates == 1
MaxWindowPtys == 3
MaxWindowChunks == 2
MaxIoCreates == 2
MaxInputs == 1
MaxNums == 3
MaxNumber == 5
MaxBranches == 4
MaxPieces == 3
MaxReadyCreates == 1
MaxReadyChunks == 3
MaxPromptLen == 4
MaxLaunchUuids == 4

----------------------------------------------------------------------------
(* Strings of terminal output are sequences of characters. *)
Marker == <<"ESC", "[", "?", "2", "0", "0", "4", "h">>

RECURSIVE includesFrom(_, _, _)
includesFrom(buf, pat, i) ==
  IF i + Len(pat) - 1 > Len(buf) THEN FALSE
  ELSE IF SubSeq(buf, i, i + Len(pat) - 1) = pat THEN TRUE
  ELSE includesFrom(buf, pat, i + 1)

includes(buf, pat) == includesFrom(buf, pat, 1)

endsWith(buf, pat) ==
  /\ Len(buf) >= Len(pat)
  /\ SubSeq(buf, Len(buf) - Len(pat) + 1, Len(buf)) = pat

isReadyMarkerOnly(dataBuffer) == includes(dataBuffer, Marker)

isReady(dataBuffer) ==
  \/ includes(dataBuffer, Marker)
  \/ includes(dataBuffer, <<"$", " ">>) \/ includes(dataBuffer, <<"%", " ">>)
  \/ includes(dataBuffer, <<">", " ">>) \/ includes(dataBuffer, <<"ARROW", " ">>)
  \/ includes(dataBuffer, <<"ARROW", " ", " ">>) \/ includes(dataBuffer, <<"CROSS", " ">>)
  \/ includes(dataBuffer, <<"CHECK", " ">>) \/ endsWith(dataBuffer, <<"$">>)
  \/ endsWith(dataBuffer, <<"%">>) \/ endsWith(dataBuffer, <<">">>)
  \/ endsWith(dataBuffer, <<"ARROW">>) \/ endsWith(dataBuffer, <<"CROSS">>)
  \/ endsWith(dataBuffer, <<"CHECK">>)

(* Output chunks a shell may emit: noise and a bare prompt character, and
   for the driver checked alone the two halves of the marker and a prompt. *)
Chunks == { <<"x">>, <<"$">> }
ReadyChunks ==
  { SubSeq(Marker, 1, 4), SubSeq(Marker, 5, 8), <<"x">>, <<"%">>,
    <<">", " ", "x">> }
DriverChunks == { SubSeq(Marker, 1, 4), SubSeq(Marker, 5, 8), <<"$">> }

----------------------------------------------------------------------------
(* Session configurations a create-session request may carry. *)
Configs ==
  { [projectDir |-> "/p", parentBranch |-> "main", codingAgent |-> "claude",
     skipPermissions |-> TRUE, setupCommands |-> <<"A", "B">>],
    [projectDir |-> "/q", parentBranch |-> "main", codingAgent |-> "codex",
     skipPermissions |-> FALSE, setupCommands |-> <<>>] }

NewNames == {"renamed"}

(* Keystrokes and terminal sizes the renderer may send. *)
Inputs == {"k"}
Sizes == {[cols |-> 120, rows |-> 40]}
UnknownId == <<"session", 0>>

sessionIdOf(t) == <<"session", t>>
sessionNameOf(n) == "Session " \o ToString(n)
uuidv4(k) == "u" \o ToString(k)

(* createWorktree: path.join(projectDir, ".fleetcode", "session<N>") and
   the branch "fleetcode/session<N>" *)
worktreePathOf(projectDir, n) == <<projectDir, ".fleetcode", "session", n>>
branchNameOf(projectDir, n) == <<projectDir, "fleetcode/session", n>>

----------------------------------------------------------------------------
(* Array helpers *)
RECURSIVE maxOf(_)
maxOf(s) ==
  IF Len(s) = 1 THEN s[1]
  ELSE LET m == maxOf(Tail(s)) IN IF s[1] >= m THEN s[1] ELSE m

numbersOf(sessions) == [i \in 1..Len(sessions) |-> sessions[i].number]

getNextSessionNumberByCount(numbers) == Len(numbers) + 1

getNextSessionNumberOf(numbers) ==
  IF Len(numbers) = 0 THEN 1 ELSE maxOf(numbers) + 1

getNextSessionNumber == getNextSessionNumberOf(numbersOf(persisted))

(* Array.prototype.findIndex: first index whose id matches, 0 when none *)
findIndex(sessions, sessionId) ==
  IF \E i \in 1..Len(sessions) : sessions[i].id = sessionId
  THEN CHOOSE i \in 1..Len(sessions) :
         /\ sessions[i].id = sessionId
         /\ \A j \in 1..(i - 1) : sessions[j].id # sessionId
  ELSE 0

(* Array.prototype.splice(index, 1) *)
splice(sessions, index) ==
  SubSeq(sessions, 1, index - 1) \o SubSeq(sessions, index + 1, Len(sessions))

RECURSIVE join(_, _)
join(parts, sep) ==
  IF Len(parts) = 0 THEN ""
  ELSE IF Len(parts) = 1 THEN parts[1]
  ELSE parts[1] \o sep \o join(Tail(parts), sep)

filterNonEmpty(parts) == SelectSeq(parts, LAMBDA f : f # "")

(* Map.prototype.set and Map.prototype.delete *)
mapSet(m, k, v) == [x \in (DOMAIN m) \cup {k} |-> IF x = k THEN v ELSE m[x]]
mapDelete(m, k) == [x \in (DOMAIN m) \ {k} |-> m[x]]

----------------------------------------------------------------------------
(* spawnSessionPty: the commands typed once the terminal is ready *)
sessionFlagOf(isNewSession, sessionUuid) ==
  IF isNewSession THEN "--session-id " \o sessionUuid
  ELSE "--resume " \o sessionUuid

claudeCmdUnfiltered(config, sessionUuid, isNewSession) ==
  LET sessionFlag == sessionFlagOf(isNewSession, sessionUuid)
      skipPermissionsFlag ==
        IF config.skipPermissions THEN "--dangerously-skip-permissions" ELSE ""
  IN "claude " \o join(<<sessionFlag, skipPermissionsFlag>>, " ") \o "\r"

claudeCmd(config, sessionUuid, isNewSession) ==
  LET sessionFlag == sessionFlagOf(isNewSession, sessionUuid)
      skipPermissionsFlag ==
        IF config.skipPermissions THEN "--dangerously-skip-permissions" ELSE ""
      flags == join(filterNonEmpty(<<sessionFlag, skipPermissionsFlag>>), " ")
  IN "claude " \o flags \o "\r"

agentWrites(config, sessionUuid, isNewSession) ==
  IF config.codingAgent = "claude"
  THEN <<claudeCmd(config, sessionUuid, isNewSession)>>
  ELSE IF config.codingAgent = "codex" THEN <<"codex\r">>
  ELSE <<>>

setupWrites(config) ==
  [i \in 1..Len(config.setupCommands) |-> config.setupCommands[i] \o "\r"]

readyWritesAgentFirst(config, sessionUuid, isNewSession) ==
  agentWrites(config, sessionUuid, isNewSession) \o setupWrites(config)

readyWrites(config, sessionUuid, isNewSession) ==
  setupWrites(config) \o agentWrites(config, sessionUuid, isNewSession)

(* A freshly spawned PTY; writes records every automatically typed line
   together with the number of output chunks received when it was typed,
   input what session-input wrote, cols and rows the size of the terminal. *)
newPty(sessionId, worktreePath, config, sessionUuid, isNewSession) ==
  [sessionId |-> sessionId, cwd |-> worktreePath, config |-> config,
   sessionUuid |-> sessionUuid, isNewSession |-> isNewSession,
   terminalReady |-> FALSE, dataBuffer |-> <<>>, nchunks |-> 0,
   writes |-> <<>>, input |-> <<>>, cols |-> 80, rows |-> 30]

(* spawnSessionPty: pty.spawn and activePtyProcesses.set *)
spawnSessionPty(sessionId, worktreePath, config, sessionUuid, isNewSession) ==
  /\ nPtys' = nPtys + 1
  /\ ptys' = mapSet(ptys, nPtys + 1,
                    newPty(sessionId, worktreePath, config, sessionUuid,
                           isNewSession))
  /\ active' = mapSet(active, sessionId, nPtys + 1)

(* webContents.send and event.reply: the message reaches the renderer
   only while the window exists; on a destroyed window the call throws and
   nothing is delivered. *)
send(msg) == IF windowOpen THEN <<msg>> ELSE <<>>

(* ptyProcess.kill() followed by activePtyProcesses.delete(sessionId): a
   killed process leaves ptys. *)
killAndForget(sessionId) ==
  /\ ptys' = mapDelete(ptys, active[sessionId])
  /\ active' = mapDelete(active, sessionId)

----------------------------------------------------------------------------
(* src/renderer.ts, the new-session dialog.  Text is a sequence of
   characters or words; the empty string is <<>>.  lastSettings is the
   stored lastSessionConfig, with the defaults of get-last-settings. *)
NoSettings == [projectDir |-> "", parentBranch |-> <<>>, sessionType |-> ""]

FormClosed ==
  [modal |-> FALSE, selectedDirectory |-> "", existingBranches |-> <<>>,
   parentOptions |-> <<>>, parentValue |-> <<>>, branchName |-> <<>>,
   sessionType |-> "worktree", createEnabled |-> TRUE, pending |-> {},
   lastSettings |-> NoSettings, requests |-> <<>>, awaitingReply |-> FALSE]

(* src/renderer.ts, the session list.  activeSessionId = null is NoSession.
   sessions is the Map in insertion order; a session record carries its tab
   (the element tab-<id> and its classes unread and activity) and whether
   terminal, fitAddon and element are set.  Session ids are 1, 2, ... in the
   order the renderer first sees them.  timeouts[id] counts the setTimeout
   callbacks of markSessionActivity that are still pending, activityTimers
   is the set of keys of the Map of that name.  reopening[id] counts the
   session-reopened replies and deleted holds the session-deleted messages
   that are on their way, mcpEvents the mcp-servers-updated messages on
   their way, requests is what the last handler sent to the main process.  outputSinceView and mcpOf are history: the sessions that
   received output or a bell, while not active, since they were last
   switched to, the session whose listing mcpServers was taken from, and
   whether the last mcp-servers-updated message was one of a session that
   was not the active one. *)
NoSession == 0

UiEmpty ==
  [sessions |-> <<>>, activeSessionId |-> NoSession, mcpServers |-> <<>>,
   activityTimers |-> {}, timeouts |-> <<>>, reopening |-> <<>>,
   deleted |-> {}, loaded |-> FALSE, requests |-> <<>>, mcpEvents |-> <<>>,
   outputSinceView |-> {}, mcpOf |-> NoSession, mcpIgnored |-> FALSE]

----------------------------------------------------------------------------
Init ==
  /\ clock = 1
  /\ persisted = <<>>
  /\ active = <<>>
  /\ ptys = <<>>
  /\ creating = {}
  /\ deleting = {}
  /\ worktrees = {}
  /\ branches = {}
  /\ sent = <<>>
  /\ nextUuid = 0
  /\ nCreates = 0
  /\ nDeletes = 0
  /\ nPtys = 0
  /\ numIn = <<>>
  /\ numOut = 0
  /\ windowOpen = TRUE
  /\ brIn = <<>>
  /\ brOut = <<>>
  /\ brCalled = FALSE
  /\ utilIn = <<>>
  /\ utilOut = <<>>
  /\ form = FormClosed
  /\ ui = UiEmpty
  /\ pollers = <<>>

(* The clock advances between any two handler runs, or does not. *)
Tick ==
  /\ clock < MaxClock
  /\ clock' = clock + 1
  /\ UNCHANGED <<persisted, active, ptys, creating, deleting, worktrees,
                 branches, sent, nextUuid, nCreates, nDeletes, nPtys,
                 numIn, numOut,
                 windowOpen, utilVars>>

----------------------------------------------------------------------------
(* create-session.  The handler runs up to the first await inside
   createWorktree; ensureFleetcodeExcluded only touches .git/info/exclude. *)
CreateStart(config) ==
  /\ nCreates < MaxCreates
  /\ nCreates' = nCreates + 1
  /\ LET sessionNumber == getNextSessionNumber
         worktreePath == worktreePathOf(config.projectDir, sessionNumber)
     IN creating' = creating \cup
          {[req |-> nCreates + 1, config |-> config,
            sessionNumber |-> sessionNumber, sessionId |-> sessionIdOf(clock),
            pc |-> IF worktreePath \in worktrees THEN "rm" ELSE "branchD"]}
  /\ sent' = <<>>
  /\ UNCHANGED <<clock, persisted, active, ptys, deleting, worktrees,
                 branches, nextUuid, nDeletes, nPtys, numIn, numOut,
                 windowOpen, utilVars>>

(* createWorktree: git worktree remove --force of an existing directory
   completes; an error is logged and swallowed. *)
CreateRemoveExisting(c, ok) ==
  /\ c.pc = "rm"
  /\ LET worktreePath == worktreePathOf(c.config.projectDir, c.sessionNumber)
     IN worktrees' = IF ok THEN worktrees \ {worktreePath} ELSE worktrees
  /\ creating' = (creating \ {c}) \cup {[c EXCEPT !.pc = "branchD"]}
  /\ sent' = <<>>
  /\ UNCHANGED <<clock, persisted, active, ptys, deleting, branches,
                 nextUuid, nCreates, nDeletes, nPtys, numIn, numOut,
                 windowOpen, utilVars>>

(* createWorktree: git branch -D completes; git refuses to delete a branch
   that is checked out in a worktree, and the error is swallowed. *)
CreateDeleteBranch(c) ==
  /\ c.pc = "branchD"
  /\ LET worktreePath == worktreePathOf(c.config.projectDir, c.sessionNumber)
         branchName == branchNameOf(c.config.projectDir, c.sessionNumber)
     IN branches' = IF worktreePath \in worktrees THEN branches
                    ELSE branches \ {branchName}
  /\ creating' = (creating \ {c}) \cup {[c EXCEPT !.pc = "add"]}
  /\ sent' = <<>>
  /\ UNCHANGED <<clock, persisted, active, ptys, deleting, worktrees,
                 nextUuid, nCreates, nDeletes, nPtys, numIn, numOut,
                 windowOpen, utilVars>>

(* createWorktree: git worktree add -b succeeds; the handler continues with
   the uuid, the record, the save, the spawn and the reply. *)
CreateFinish(c) ==
  /\ c.pc = "add"
  /\ LET worktreePath == worktreePathOf(c.config.projectDir, c.sessionNumber)
         branchName == branchNameOf(c.config.projectDir, c.sessionNumber)
         sessionUuid == uuidv4(nextUuid + 1)
         persistedSession ==
           [id |-> c.sessionId, number |-> c.sessionNumber,
            name |-> sessionNameOf(c.sessionNumber), config |-> c.config,
            worktreePath |-> worktreePath, createdAt |-> clock,
            sessionUuid |-> sessionUuid]
     IN /\ worktreePath \notin worktrees
        /\ branchName \notin branches
        /\ worktrees' = worktrees \cup {worktreePath}
        /\ branches' = branches \cup {branchName}
        /\ nextUuid' = nextUuid + 1
        /\ persisted' = Append(persisted, persistedSession)
        /\ spawnSessionPty(c.sessionId, worktreePath, c.config, sessionUuid, TRUE)
        /\ sent' = send([type |-> "session-created", sessionId |-> c.sessionId,
                        data |-> persistedSession])
  /\ creating' = creating \ {c}
  /\ UNCHANGED <<clock, deleting, nCreates, nDeletes, numIn, numOut,
                 windowOpen, utilVars>>

CreateFailRecordKept(c) ==
  /\ c.pc = "add"
  /\ creating' = creating \ {c}
  /\ persisted' = Append(persisted,
       [id |-> c.sessionId, number |-> c.sessionNumber,
        name |-> sessionNameOf(c.sessionNumber), config |-> c.config,
        worktreePath |-> worktreePathOf(c.config.projectDir, c.sessionNumber),
        createdAt |-> clock, sessionUuid |-> uuidv4(nextUuid + 1)])
  /\ sent' = send([type |-> "session-error", sessionId |-> c.sessionId,
                  data |-> "error"])
  /\ UNCHANGED <<clock, active, ptys, deleting, worktrees, branches,
                 nextUuid, nCreates, nDeletes, nPtys, numIn, numOut,
                 windowOpen, utilVars>>

(* createWorktree: git worktree add -b fails (the branch or the directory
   exists, or the parent branch is invalid); the catch block replies. *)
CreateFail(c) ==
  /\ c.pc = "add"
  /\ creating' = creating \ {c}
  /\ sent' = send([type |-> "session-error", sessionId |-> c.sessionId,
                  data |-> "error"])
  /\ UNCHANGED <<clock, persisted, active, ptys, deleting, worktrees,
                 branches, nextUuid, nCreates, nDeletes, nPtys, numIn, numOut,
                 windowOpen, utilVars>>

(* create-session: git worktree add -b succeeds and the record is saved,
   then pty.spawn throws inside spawnSessionPty; nothing is put in the map
   and the catch block replies. *)
CreateSpawnThrows(c) ==
  /\ c.pc = "add"
  /\ LET worktreePath == worktreePathOf(c.config.projectDir, c.sessionNumber)
         branchName == branchNameOf(c.config.projectDir, c.sessionNumber)
         sessionUuid == uuidv4(nextUuid + 1)
         persistedSession ==
           [id |-> c.sessionId, number |-> c.sessionNumber,
            name |-> sessionNameOf(c.sessionNumber), config |-> c.config,
            worktreePath |-> worktreePath, createdAt |-> clock,
            sessionUuid |-> sessionUuid]
     IN /\ worktreePath \notin worktrees
        /\ branchName \notin branches
        /\ worktrees' = worktrees \cup {worktreePath}
        /\ branches' = branches \cup {branchName}
        /\ nextUuid' = nextUuid + 1
        /\ persisted' = Append(persisted, persistedSession)
        /\ sent' = send([type |-> "session-error", sessionId |-> c.sessionId,
                        data |-> "error"])
  /\ creating' = creating \ {c}
  /\ UNCHANGED <<clock, active, ptys, deleting, nCreates, nDeletes, nPtys,
                 numIn, numOut,
                 windowOpen, utilVars>>

----------------------------------------------------------------------------
PtyDataNoFlag(p, data) ==
  /\ p \in DOMAIN ptys
  /\ LET q == ptys[p]
         n == q.nchunks + 1
         dataBuffer == q.dataBuffer \o data
         typed == readyWrites(q.config, q.sessionUuid, q.isNewSession)
     IN /\ ptys' = [ptys EXCEPT ![p] =
             IF isReady(dataBuffer)
             THEN [q EXCEPT !.nchunks = n, !.dataBuffer = dataBuffer,
                            !.terminalReady = TRUE,
                            !.writes = q.writes \o
                                        [k \in 1..Len(typed) |->
                                          [data |-> typed[k], at |-> n]]]
             ELSE [q EXCEPT !.nchunks = n, !.dataBuffer = dataBuffer]]
        /\ sent' = send([type |-> "session-output", sessionId |-> q.sessionId,
                        data |-> data])
  /\ UNCHANGED <<clock, persisted, active, creating, deleting, worktrees,
                 branches, nextUuid, nCreates, nDeletes, nPtys, numIn, numOut,
                 windowOpen, utilVars>>

PtyDataGated(p, data) ==
  /\ p \in DOMAIN ptys
  /\ LET q == ptys[p]
         n == q.nchunks + 1
         dataBuffer == q.dataBuffer \o data
         typed == readyWrites(q.config, q.sessionUuid, q.isNewSession)
     IN /\ ptys' = [ptys EXCEPT ![p] =
             IF q.terminalReady THEN [q EXCEPT !.nchunks = n]
             ELSE IF isReady(dataBuffer)
             THEN [q EXCEPT !.nchunks = n, !.dataBuffer = dataBuffer,
                            !.terminalReady = TRUE,
                            !.writes = [k \in 1..Len(typed) |->
                                          [data |-> typed[k], at |-> n]]]
             ELSE [q EXCEPT !.nchunks = n, !.dataBuffer = dataBuffer]]
        /\ sent' = IF q.terminalReady
                   THEN send([type |-> "session-output",
                              sessionId |-> q.sessionId, data |-> data])
                   ELSE <<>>
  /\ UNCHANGED <<clock, persisted, active, creating, deleting, worktrees,
                 branches, nextUuid, nCreates, nDeletes, nPtys, numIn, numOut,
                 windowOpen, utilVars>>

(* ptyProcess.onData: one output chunk of PTY p arrives.  The chunk is
   forwarded to the window; until the terminal is ready it is appended to
   dataBuffer, and at the first ready buffer every setup command and the
   agent command are written. *)
PtyData(p, data) ==
  /\ p \in DOMAIN ptys
  /\ LET q == ptys[p]
         n == q.nchunks + 1
         dataBuffer == q.dataBuffer \o data
         typed == readyWrites(q.config, q.sessionUuid, q.isNewSession)
     IN /\ ptys' = [ptys EXCEPT ![p] =
             IF q.terminalReady THEN [q EXCEPT !.nchunks = n]
             ELSE IF isReady(dataBuffer)
             THEN [q EXCEPT !.nchunks = n, !.dataBuffer = dataBuffer,
                            !.terminalReady = TRUE,
                            !.writes = [k \in 1..Len(typed) |->
                                          [data |-> typed[k], at |-> n]]]
             ELSE [q EXCEPT !.nchunks = n, !.dataBuffer = dataBuffer]]
        /\ sent' = send([type |-> "session-output", sessionId |-> q.sessionId,
                        data |-> data])
  /\ UNCHANGED <<clock, persisted, active, creating, deleting, worktrees,
                 branches, nextUuid, nCreates, nDeletes, nPtys, numIn, numOut,
                 windowOpen, utilVars>>

SessionInputAll(sessionId, data) ==
  /\ ptys' = [p \in DOMAIN ptys |->
               [ptys[p] EXCEPT !.input = Append(@, data)]]
  /\ sent' = <<>>
  /\ UNCHANGED <<clock, persisted, active, creating, deleting, worktrees,
                 branches, nextUuid, nCreates, nDeletes, nPtys, numIn, numOut,
                 windowOpen, utilVars>>

(* session-input *)
SessionInput(sessionId, data) ==
  /\ IF sessionId \in DOMAIN active
     THEN ptys' = [ptys EXCEPT ![active[sessionId]].input = Append(@, data)]
     ELSE UNCHANGED ptys
  /\ sent' = <<>>
  /\ UNCHANGED <<clock, persisted, active, creating, deleting, worktrees,
                 branches, nextUuid, nCreates, nDeletes, nPtys, numIn, numOut,
                 windowOpen, utilVars>>

(* session-resize *)
SessionResize(sessionId, cols, rows) ==
  /\ IF sessionId \in DOMAIN active
     THEN ptys' = [ptys EXCEPT ![active[sessionId]].cols = cols,
                               ![active[sessionId]].rows = rows]
     ELSE UNCHANGED ptys
  /\ sent' = <<>>
  /\ UNCHANGED <<clock, persisted, active, creating, deleting, worktrees,
                 branches, nextUuid, nCreates, nDeletes, nPtys, numIn, numOut,
                 windowOpen, utilVars>>

ReopenSessionUnguarded(sessionId) ==
  /\ LET index == findIndex(persisted, sessionId) IN
     IF index = 0
     THEN /\ sent' = <<>>
          /\ UNCHANGED <<active, ptys, nPtys>>
     ELSE LET session == persisted[index] IN
          /\ nPtys < MaxPtys
          /\ spawnSessionPty(sessionId, session.worktreePath,
                             session.config, session.sessionUuid, FALSE)
          /\ sent' = send([type |-> "session-reopened",
                          sessionId |-> sessionId, data |-> ""])
  /\ UNCHANGED <<clock, persisted, creating, deleting, worktrees, branches,
                 nextUuid, nCreates, nDeletes, numIn, numOut,
                 windowOpen, utilVars>>

(* reopen-session *)
ReopenSession(sessionId) ==
  /\ IF sessionId \in DOMAIN active
     THEN /\ sent' = send([type |-> "session-reopened", sessionId |-> sessionId,
                          data |-> ""])
          /\ UNCHANGED <<active, ptys, nPtys>>
     ELSE LET index == findIndex(persisted, sessionId) IN
          IF index = 0
          THEN /\ sent' = <<>>
               /\ UNCHANGED <<active, ptys, nPtys>>
          ELSE LET session == persisted[index] IN
               /\ nPtys < MaxPtys
               /\ spawnSessionPty(sessionId, session.worktreePath,
                                  session.config, session.sessionUuid, FALSE)
               /\ sent' = send([type |-> "session-reopened",
                               sessionId |-> sessionId, data |-> ""])
  /\ UNCHANGED <<clock, persisted, creating, deleting, worktrees, branches,
                 nextUuid, nCreates, nDeletes, numIn, numOut,
                 windowOpen, utilVars>>

(* close-session *)
CloseSession(sessionId) ==
  /\ IF sessionId \in DOMAIN active
     THEN killAndForget(sessionId)
     ELSE UNCHANGED <<active, ptys>>
  /\ sent' = <<>>
  /\ UNCHANGED <<clock, persisted, creating, deleting, worktrees, branches,
                 nextUuid, nCreates, nDeletes, nPtys, numIn, numOut,
                 windowOpen, utilVars>>

(* delete-session up to the await of removeWorktree: the PTY is killed,
   the collection is read and the record is looked up. *)
DeleteStart(sessionId) ==
  /\ IF sessionId \in DOMAIN active
     THEN killAndForget(sessionId)
     ELSE UNCHANGED <<active, ptys>>
  /\ LET sessions == persisted
         sessionIndex == findIndex(sessions, sessionId)
     IN IF sessionIndex = 0
        THEN UNCHANGED <<deleting, nDeletes>>
        ELSE /\ nDeletes < MaxDeletes
             /\ nDeletes' = nDeletes + 1
             /\ deleting' = deleting \cup
                  {[req |-> nDeletes + 1, sessionId |-> sessionId,
                    sessions |-> sessions, sessionIndex |-> sessionIndex]}
  /\ sent' = <<>>
  /\ UNCHANGED <<clock, persisted, creating, worktrees, branches, nextUuid,
                 nCreates, nPtys, numIn, numOut,
                 windowOpen, utilVars>>

(* delete-session after removeWorktree returned: git worktree remove
   --force succeeded (ok) or failed and was logged; the record is spliced
   out of the collection read before the await, which is saved. *)
DeleteFinish(d, ok) ==
  /\ LET session == d.sessions[d.sessionIndex]
     IN /\ worktrees' = IF ok /\ session.worktreePath \in worktrees
                         THEN worktrees \ {session.worktreePath}
                         ELSE worktrees
        /\ persisted' = splice(d.sessions, d.sessionIndex)
        /\ sent' = send([type |-> "session-deleted", sessionId |-> d.sessionId,
                        data |-> ""])
        /\ deleting' = deleting \ {d}
  /\ UNCHANGED <<clock, active, ptys, creating, branches, nextUuid,
                 nCreates, nDeletes, nPtys, numIn, numOut,
                 windowOpen, utilVars>>

(* rename-session *)
RenameSession(sessionId, newName) ==
  /\ LET index == findIndex(persisted, sessionId)
     IN IF index = 0 THEN UNCHANGED persisted
        ELSE persisted' = [persisted EXCEPT ![index].name = newName]
  /\ sent' = <<>>
  /\ UNCHANGED <<clock, active, ptys, creating, deleting, worktrees,
                 branches, nextUuid, nCreates, nDeletes, nPtys, numIn, numOut,
                 windowOpen, utilVars>>

(* mainWindow.on("closed"): every PTY in the map is killed and the map is
   cleared; on macOS the application keeps running without a window. *)
WindowClosed ==
  /\ windowOpen
  /\ windowOpen' = FALSE
  /\ ptys' = [p \in (DOMAIN ptys) \ {active[k] : k \in DOMAIN active}
                |-> ptys[p]]
  /\ active' = <<>>
  /\ sent' = <<>>
  /\ UNCHANGED <<clock, persisted, creating, deleting, worktrees, branches,
                 nextUuid, nCreates, nDeletes, nPtys, numIn, numOut, utilVars>>

(* app.on("activate") without a window: createWindow, and once the page has
   loaded the persisted sessions are sent to it. *)
Activate ==
  /\ ~windowOpen
  /\ windowOpen' = TRUE
  /\ sent' = <<[type |-> "load-persisted-sessions", data |-> persisted]>>
  /\ UNCHANGED <<clock, persisted, active, ptys, creating, deleting,
                 worktrees, branches, nextUuid, nCreates, nDeletes, nPtys,
                 numIn, numOut, utilVars>>

----------------------------------------------------------------------------
(* Session ids a request may name: every id the clock has produced so far
   and one id that no session has. *)
RequestIds == {sessionIdOf(t) : t \in 1..clock} \cup {UnknownId}

Next ==
  \/ Tick
  \/ \E config \in Configs : CreateStart(config)
  \/ \E c \in creating, ok \in BOOLEAN : CreateRemoveExisting(c, ok)
  \/ \E c \in creating : CreateDeleteBranch(c)
  \/ \E c \in creating : CreateFinish(c)
  \/ \E c \in creating : CreateFail(c)
  \/ \E c \in creating : CreateSpawnThrows(c)
  \/ \E p \in DOMAIN ptys, data \in Chunks :
       ptys[p].nchunks < MaxChunks /\ PtyData(p, data)
  \/ \E sessionId \in RequestIds : ReopenSession(sessionId)
  \/ \E sessionId \in RequestIds : CloseSession(sessionId)
  \/ \E sessionId \in RequestIds : DeleteStart(sessionId)
  \/ \E d \in deleting, ok \in BOOLEAN : DeleteFinish(d, ok)
  \/ \E sessionId \in RequestIds, newName \in NewNames :
       RenameSession(sessionId, newName)

Spec == Init /\ [][Next]_vars

----------------------------------------------------------------------------
(* getNextSessionNumber applied to collections with arbitrary numbers *)
RECURSIVE SeqsUpTo(_, _)
SeqsUpTo(S, n) ==
  IF n = 0 THEN {<<>>}
  ELSE LET shorter == SeqsUpTo(S, n - 1)
       IN shorter \cup {Append(s, x) : s \in shorter, x \in S}

InitNumbering ==
  /\ clock = 1
  /\ persisted = <<>>
  /\ active = <<>>
  /\ ptys = <<>>
  /\ creating = {}
  /\ deleting = {}
  /\ worktrees = {}
  /\ branches = {}
  /\ sent = <<>>
  /\ nextUuid = 0
  /\ nCreates = 0
  /\ nDeletes = 0
  /\ nPtys = 0
  /\ numIn \in SeqsUpTo(1..MaxNumber, MaxNums)
  /\ numOut = 0
  /\ windowOpen = TRUE
  /\ brIn = <<>>
  /\ brOut = <<>>
  /\ brCalled = FALSE
  /\ utilIn = <<>>
  /\ utilOut = <<>>
  /\ form = FormClosed
  /\ ui = UiEmpty
  /\ pollers = <<>>

CallGetNextSessionNumber ==
  /\ numOut = 0
  /\ numOut' = getNextSessionNumberOf(numIn)
  /\ UNCHANGED <<clock, persisted, active, ptys, creating, deleting,
                 worktrees, branches, sent, nextUuid, nCreates, nDeletes,
                 nPtys, numIn, windowOpen, utilVars>>

NextNumbering == CallGetNextSessionNumber

SpecNumbering == InitNumbering /\ [][NextNumbering]_vars

----------------------------------------------------------------------------
(* src/git-utils.ts.  Branch names git may list: the two main names, a name
   that contains one of them, and another name. *)
BranchNames == {"main", "master", "main-branch", "develop"}

isMainOrMasterBySubstring(a) == a \in {"main", "master", "main-branch"}

isMainOrMaster(a) == a = "main" \/ a = "master"

(* the comparison function handed to Array.prototype.sort *)
compareBranches(a, b) ==
  LET aIsMainOrMaster == isMainOrMaster(a)
      bIsMainOrMaster == isMainOrMaster(b)
  IN IF aIsMainOrMaster /\ ~bIsMainOrMaster THEN -1
     ELSE IF ~aIsMainOrMaster /\ bIsMainOrMaster THEN 1
     ELSE 0

(* Array.prototype.sort is stable: an element is placed before the first
   element it compares less than, behind every element it compares equal
   to. *)
RECURSIVE insertSorted(_, _)
insertSorted(sorted, x) ==
  IF sorted = <<>> THEN <<x>>
  ELSE IF compareBranches(x, sorted[1]) < 0 THEN <<x>> \o sorted
  ELSE <<sorted[1]>> \o insertSorted(Tail(sorted), x)

RECURSIVE sortFrom(_, _)
sortFrom(sorted, rest) ==
  IF rest = <<>> THEN sorted
  ELSE sortFrom(insertSorted(sorted, rest[1]), Tail(rest))

sortBranchesMainLast(branchList) ==
  SelectSeq(branchList, LAMBDA a : ~isMainOrMaster(a))
    \o SelectSeq(branchList, isMainOrMaster)

sortBranchesWithMainFirst(branchList) == sortFrom(<<>>, branchList)

InitSort ==
  /\ clock = 1
  /\ persisted = <<>>
  /\ active = <<>>
  /\ ptys = <<>>
  /\ creating = {}
  /\ deleting = {}
  /\ worktrees = {}
  /\ branches = {}
  /\ sent = <<>>
  /\ nextUuid = 0
  /\ nCreates = 0
  /\ nDeletes = 0
  /\ nPtys = 0
  /\ numIn = <<>>
  /\ numOut = 0
  /\ windowOpen = TRUE
  /\ brIn \in SeqsUpTo(BranchNames, MaxBranches)
  /\ brOut = <<>>
  /\ brCalled = FALSE
  /\ utilIn = <<>>
  /\ utilOut = <<>>
  /\ form = FormClosed
  /\ ui = UiEmpty
  /\ pollers = <<>>

CallSortBranchesWithMainFirst ==
  /\ ~brCalled
  /\ brCalled' = TRUE
  /\ brOut' = sortBranchesWithMainFirst(brIn)
  /\ UNCHANGED <<clock, persisted, active, ptys, creating, deleting,
                 worktrees, branches, sent, nextUuid, nCreates, nDeletes,
                 nPtys, numIn, numOut, windowOpen, brIn, utilIn, utilOut,
                 form, ui, pollers>>

NextSort == CallSortBranchesWithMainFirst

SpecSort == InitSort /\ [][NextSort]_vars

----------------------------------------------------------------------------
(* The state in which a utility function is called on its own: nothing has
   happened in the main process. *)
InitIdle ==
  /\ clock = 1
  /\ persisted = <<>>
  /\ active = <<>>
  /\ ptys = <<>>
  /\ creating = {}
  /\ deleting = {}
  /\ worktrees = {}
  /\ branches = {}
  /\ sent = <<>>
  /\ nextUuid = 0
  /\ nCreates = 0
  /\ nDeletes = 0
  /\ nPtys = 0
  /\ numIn = <<>>
  /\ numOut = 0
  /\ windowOpen = TRUE
  /\ brIn = <<>>
  /\ brOut = <<>>
  /\ brCalled = FALSE
  /\ form = FormClosed
  /\ ui = UiEmpty
  /\ pollers = <<>>

(* The call of a utility function leaves everything but its result. *)
UtilCall(result) ==
  /\ utilOut = <<>>
  /\ utilOut' = <<result>>
  /\ UNCHANGED <<clock, persisted, active, ptys, creating, deleting,
                 worktrees, branches, sent, nextUuid, nCreates, nDeletes,
                 nPtys, numIn, numOut, windowOpen, brIn, brOut, brCalled,
                 utilIn, form, ui, pollers>>

----------------------------------------------------------------------------
(* getBranches (src/git-utils.ts): git.branch() resolves with the branch
   summary, or simpleGit or git.branch() throws and the catch block returns
   the empty list; the promise of getBranches resolves in both cases. *)
getBranchesRethrow(git) ==
  IF git.ok THEN [rejected |-> FALSE,
                  value |-> sortBranchesWithMainFirst(git.all)]
  ELSE [rejected |-> TRUE, value |-> <<>>]

getBranches(git) ==
  IF git.ok THEN [rejected |-> FALSE,
                  value |-> sortBranchesWithMainFirst(git.all)]
  ELSE [rejected |-> FALSE, value |-> <<>>]

InitBranches ==
  /\ InitIdle
  /\ utilIn \in [ok : BOOLEAN, all : SeqsUpTo(BranchNames, MaxBranches)]
  /\ utilOut = <<>>

CallGetBranches == UtilCall(getBranches(utilIn))

NextBranches == CallGetBranches

SpecBranches == InitBranches /\ [][NextBranches]_vars

----------------------------------------------------------------------------
(* src/terminal-utils.ts.  Buffers are put together from whole markers,
   half markers and other text. *)
RECURSIVE flatten(_)
flatten(pieces) ==
  IF pieces = <<>> THEN <<>> ELSE pieces[1] \o flatten(Tail(pieces))

MarkerPieces == { Marker, SubSeq(Marker, 1, 4), <<"x">> }

MarkerBuffers == {flatten(ps) : ps \in SeqsUpTo(MarkerPieces, MaxPieces)}

isTerminalReadyFromStart(buffer, startPos) == includes(buffer, Marker)

(* buffer.includes(BRACKETED_PASTE_MODE_ENABLE, startPos): the search
   starts at the zero-based index startPos. *)
isTerminalReady(buffer, startPos) == includesFrom(buffer, Marker, startPos + 1)

InitTerminalReady ==
  /\ InitIdle
  /\ utilIn \in UNION {{[buffer |-> b, startPos |-> k] : k \in 0..(Len(b) + 1)}
                        : b \in MarkerBuffers}
  /\ utilOut = <<>>

CallIsTerminalReady ==
  UtilCall(isTerminalReady(utilIn.buffer, utilIn.startPos))

NextTerminalReady == CallIsTerminalReady

SpecTerminalReady == InitTerminalReady /\ [][NextTerminalReady]_vars

----------------------------------------------------------------------------
(* isClaudeSessionReady: CLAUDE_READY_PROMPT_PATTERN.test(buffer) with the
   pattern />\r\n/, on buffers over the characters of the pattern, a space
   and other text. *)
PromptAlphabet == {">", "CR", "LF", " ", "x"}

isClaudeSessionReadyLoose(buffer) == includes(buffer, <<">">>)

isClaudeSessionReady(buffer) == includes(buffer, <<">", "CR", "LF">>)

InitClaudeReady ==
  /\ InitIdle
  /\ utilIn \in SeqsUpTo(PromptAlphabet, MaxPromptLen)
  /\ utilOut = <<>>

CallIsClaudeSessionReady == UtilCall(isClaudeSessionReady(utilIn))

NextClaudeReady == CallIsClaudeSessionReady

SpecClaudeReady == InitClaudeReady /\ [][NextClaudeReady]_vars

----------------------------------------------------------------------------
(* The claude launch command of spawnSessionPty for every claude
   configuration, new and reopened sessions and a few uuids. *)
ClaudeConfigs ==
  [projectDir : {"/p", "/q"}, parentBranch : {"main"},
   codingAgent : {"claude"}, skipPermissions : BOOLEAN,
   setupCommands : {<<>>, <<"A", "B">>}]

InitLaunch ==
  /\ InitIdle
  /\ utilIn \in [config : ClaudeConfigs, isNewSession : BOOLEAN,
                  sessionUuid : {uuidv4(k) : k \in 1..MaxLaunchUuids}]
  /\ utilOut = <<>>

CallClaudeCmd ==
  UtilCall(claudeCmd(utilIn.config, utilIn.sessionUuid, utilIn.isNewSession))

NextLaunch == CallClaudeCmd

SpecLaunch == InitLaunch /\ [][NextLaunch]_vars

----------------------------------------------------------------------------
(* The worktree directory of createWorktree.  An absolute path is the
   sequence of its segments; path.join concatenates and normalises: empty
   and "." segments are dropped and ".." removes the segment before it. *)
MaxDepth == 2
MaxPathNumber == 2

RECURSIVE normalizeInto(_, _)
normalizeInto(done, rest) ==
  IF rest = <<>> THEN done
  ELSE IF Head(rest) = "" \/ Head(rest) = "."
       THEN normalizeInto(done, Tail(rest))
  ELSE IF Head(rest) = ".."
       THEN normalizeInto(IF done = <<>> THEN done
                          ELSE SubSeq(done, 1, Len(done) - 1), Tail(rest))
  ELSE normalizeInto(Append(done, Head(rest)), Tail(rest))

pathJoin(a, b) == normalizeInto(<<>>, a \o b)

worktreeNameOf(sessionNumber) == "session" \o ToString(sessionNumber)

createWorktreePathByBaseName(projectDir, sessionNumber) ==
  <<"worktrees", projectDir[Len(projectDir)], worktreeNameOf(sessionNumber)>>

createWorktreePath(projectDir, sessionNumber) ==
  LET fleetcodeDir == pathJoin(projectDir, <<".fleetcode">>)
  IN  pathJoin(fleetcodeDir, <<worktreeNameOf(sessionNumber)>>)

(* Project directories as the directory dialog returns them: absolute and
   normalised; one of them is a worktree of another project. *)
ProjectPaths ==
  (SeqsUpTo({"a", "b", "proj"}, MaxDepth) \ {<<>>})
    \cup {<<"a", "proj", ".fleetcode", "session1">>}

InitPaths ==
  /\ InitIdle
  /\ utilIn \in [projectDir1 : ProjectPaths, projectDir2 : ProjectPaths,
                  number1 : 1..MaxPathNumber, number2 : 1..MaxPathNumber]
  /\ utilOut = <<>>

CallCreateWorktreePath ==
  UtilCall([path1 |-> createWorktreePath(utilIn.projectDir1, utilIn.number1),
            path2 |-> createWorktreePath(utilIn.projectDir2, utilIn.number2)])

NextPaths == CallCreateWorktreePath

SpecPaths == InitPaths /\ [][NextPaths]_vars

----------------------------------------------------------------------------
(* The readiness driver of the PTYs of a few sessions, with output that
   splits the marker over two chunks. *)
NextDriver ==
  \/ \E config \in Configs : nCreates < MaxDriverCreates /\ CreateStart(config)
  \/ \E c \in creating : CreateDeleteBranch(c)
  \/ \E c \in creating : CreateFinish(c)
  \/ \E c \in creating : CreateFail(c)
  \/ \E p \in DOMAIN ptys, data \in DriverChunks :
       ptys[p].nchunks < MaxDriverChunks /\ PtyData(p, data)
  \/ \E sessionId \in RequestIds :
       nPtys < MaxDriverPtys /\ ReopenSession(sessionId)
  \/ \E sessionId \in RequestIds : CloseSession(sessionId)

SpecDriver == Init /\ [][NextDriver]_vars

----------------------------------------------------------------------------
(* create-session with each of its outcomes, next to sessions that are
   already running or closed. *)
NextCreate ==
  \/ Tick
  \/ \E config \in Configs : nCreates < MaxErrCreates /\ CreateStart(config)
  \/ \E c \in creating : CreateDeleteBranch(c)
  \/ \E c \in creating : CreateFinish(c)
  \/ \E c \in creating : CreateFail(c)
  \/ \E c \in creating : CreateSpawnThrows(c)
  \/ \E sessionId \in RequestIds : CloseSession(sessionId)

SpecCreate == Init /\ [][NextCreate]_vars

----------------------------------------------------------------------------
(* The output of the PTYs of a session while the window is closed and
   opened again; requests arrive only from the renderer of an open window,
   a create-session that is awaiting git continues without one. *)
NextWindow ==
  \/ \E config \in Configs :
       windowOpen /\ nCreates < MaxWindowCreates /\ CreateStart(config)
  \/ \E c \in creating : CreateDeleteBranch(c)
  \/ \E c \in creating : CreateFinish(c)
  \/ \E c \in creating : CreateFail(c)
  \/ \E p \in DOMAIN ptys, data \in Chunks :
       ptys[p].nchunks < MaxWindowChunks /\ PtyData(p, data)
  \/ \E sessionId \in RequestIds :
       windowOpen /\ nPtys < MaxWindowPtys /\ ReopenSession(sessionId)
  \/ \E sessionId \in RequestIds : windowOpen /\ CloseSession(sessionId)
  \/ WindowClosed
  \/ Activate

SpecWindow == Init /\ [][NextWindow]_vars

----------------------------------------------------------------------------
(* Keystrokes and resizes for sessions that are running, closed, not yet
   created or unknown, before and after the shell of the session has
   printed its prompt; sessions are created one after the other. *)
NextIo ==
  \/ creating = {} /\ Tick
  \/ \E config \in {c \in Configs : c.projectDir = "/p"} :
       creating = {} /\ nCreates < MaxIoCreates /\ CreateStart(config)
  \/ \E c \in creating : CreateDeleteBranch(c)
  \/ \E c \in creating : CreateFinish(c)
  \/ \E p \in DOMAIN ptys :
       ~ptys[p].terminalReady /\ PtyData(p, <<"$">>)
  \/ \E sessionId \in RequestIds : CloseSession(sessionId)
  \/ \E sessionId \in RequestIds, data \in Inputs :
       /\ sessionId \in DOMAIN active =>
            Len(ptys[active[sessionId]].input) < MaxInputs
       /\ SessionInput(sessionId, data)
  \/ \E sessionId \in RequestIds, size \in Sizes :
       SessionResize(sessionId, size.cols, size.rows)

SpecIo == Init /\ [][NextIo]_vars

----------------------------------------------------------------------------
(* The readiness test of a new PTY, with output that carries the marker in
   two halves, a bare prompt character, a prompt token followed by text,
   and other text; chunksOf counts the chunks all PTYs have emitted. *)
RECURSIVE chunksOf(_)
chunksOf(S) ==
  IF S = {} THEN 0
  ELSE LET p == CHOOSE q \in S : TRUE
       IN  ptys[p].nchunks + chunksOf(S \ {p})

NextReadiness ==
  \/ \E config \in Configs : nCreates < MaxReadyCreates /\ CreateStart(config)
  \/ \E c \in creating : CreateDeleteBranch(c)
  \/ \E c \in creating : CreateFinish(c)
  \/ \E p \in DOMAIN ptys, data \in ReadyChunks :
       chunksOf(DOMAIN ptys) < MaxReadyChunks /\ PtyData(p, data)

SpecReadiness == Init /\ [][NextReadiness]_vars

----------------------------------------------------------------------------
(* The new-session dialog of src/renderer.ts.  The repositories on disk are
   the environment: get-branches of src/main.ts answers with the branch
   list of the directory it is asked about, [] for a directory that is no
   repository. *)
MaxPending == 2

Dirs == {"/p", "/q", "/n"}

RepoBranches(dir) ==
  IF dir = "/p" THEN << <<"main">>, <<"develop">> >>
  ELSE IF dir = "/q" THEN << <<"main">>, <<"origin/", "feat">> >>
  ELSE <<>>

BranchTexts == { <<>>, <<"feat">>, <<" ", "feat", " ">>, <<"develop">> }

SessionTypes == {"worktree", "local"}

WhiteSpace == {" ", "\n"}

RECURSIVE trimStart(_)
trimStart(t) ==
  IF t # <<>> /\ Head(t) \in WhiteSpace THEN trimStart(Tail(t)) ELSE t

RECURSIVE trimEnd(_)
trimEnd(t) ==
  IF t # <<>> /\ t[Len(t)] \in WhiteSpace
  THEN trimEnd(SubSeq(t, 1, Len(t) - 1))
  ELSE t

trim(t) == trimEnd(trimStart(t))

(* existingBranches.some(b => b === name || b === `origin/${name}`) *)
branchExists(existing, name) ==
  \E i \in 1..Len(existing) :
    existing[i] = name \/ existing[i] = <<"origin/">> \o name

validateBranchName(f) ==
  LET name == trim(f.branchName)
  IN  name = <<>> \/ ~branchExists(f.existingBranches, name)

(* What the click on Create builds from the dialog. *)
formConfig(f) ==
  [projectDir   |-> f.selectedDirectory,
   sessionType  |-> f.sessionType,
   parentBranch |-> IF f.sessionType = "worktree" THEN f.parentValue
                    ELSE <<>>,
   branchName   |-> trim(f.branchName)]

settingsOf(config) ==
  [projectDir |-> config.projectDir, parentBranch |-> config.parentBranch,
   sessionType |-> config.sessionType]

(* The part of the new-session handler after its awaits. *)
applyLastSettings(f, ls) ==
  [f EXCEPT !.sessionType =
     IF ls.sessionType # "" THEN ls.sessionType ELSE "worktree"]

(* loadAndPopulateBranches after its await: the list shown and the option
   selected. *)
populateBranches(f, list, selected) ==
  [f EXCEPT !.existingBranches = list,
            !.parentOptions = list,
            !.parentValue =
              IF \E i \in 1..Len(list) : list[i] = selected THEN selected
              ELSE IF list # <<>> THEN list[1] ELSE <<>>]

(* No native dialog is open over the window. *)
uiFree == \A a \in form.pending : a.op # "dialog"

InitForm == Init

NewSessionClick ==
  /\ uiFree
  /\ Cardinality(form.pending) < MaxPending
  /\ form' = [form EXCEPT !.modal = TRUE, !.requests = <<>>,
                !.pending = @ \cup {[op |-> "settings",
                                     ls |-> form.lastSettings]}]
  /\ UNCHANGED mainVars

LastSettingsArrive ==
  \E a \in form.pending :
    /\ a.op = "settings"
    /\ LET f == [form EXCEPT !.pending = @ \ {a}, !.requests = <<>>]
       IN  form' =
             IF a.ls.projectDir # ""
             THEN [f EXCEPT !.selectedDirectory = a.ls.projectDir,
                     !.pending = @ \cup {[op |-> "load",
                                          dir |-> a.ls.projectDir,
                                          selected |-> a.ls.parentBranch,
                                          opening |-> TRUE,
                                          ls |-> a.ls]}]
             ELSE applyLastSettings(f, a.ls)
    /\ UNCHANGED mainVars

BrowseClick ==
  /\ form.modal
  /\ uiFree
  /\ Cardinality(form.pending) < MaxPending
  /\ form' = [form EXCEPT !.requests = <<>>,
                !.pending = @ \cup {[op |-> "dialog"]}]
  /\ UNCHANGED mainVars

(* select-directory answers: a directory, or "" when the dialog was
   cancelled. *)
DirectoryChosen ==
  \E a \in form.pending, dir \in Dirs \cup {""} :
    /\ a.op = "dialog"
    /\ LET f == [form EXCEPT !.pending = @ \ {a}, !.requests = <<>>]
       IN  form' =
             IF dir # ""
             THEN [f EXCEPT !.selectedDirectory = dir,
                     !.pending = @ \cup {[op |-> "load", dir |-> dir,
                                          selected |-> <<>>,
                                          opening |-> FALSE,
                                          ls |-> NoSettings]}]
             ELSE f
    /\ UNCHANGED mainVars

BranchesArrive ==
  \E a \in form.pending :
    /\ a.op = "load"
    /\ LET f == populateBranches(
                  [form EXCEPT !.pending = @ \ {a}, !.requests = <<>>],
                  RepoBranches(a.dir), a.selected)
       IN  form' = IF a.opening THEN applyLastSettings(f, a.ls) ELSE f
    /\ UNCHANGED mainVars

SelectSessionType ==
  \E t \in SessionTypes :
    /\ form.modal
    /\ uiFree
    /\ t # form.sessionType
    /\ form' = [form EXCEPT !.sessionType = t, !.requests = <<>>]
    /\ UNCHANGED mainVars

SelectParentBranch ==
  \E i \in 1..Len(form.parentOptions) :
    /\ form.modal
    /\ uiFree
    /\ form.parentOptions[i] # form.parentValue
    /\ form' = [form EXCEPT !.parentValue = form.parentOptions[i],
                  !.requests = <<>>]
    /\ UNCHANGED mainVars

TypeBranchName ==
  \E t \in BranchTexts :
    /\ form.modal
    /\ uiFree
    /\ t # form.branchName
    /\ form' = [form EXCEPT !.branchName = t, !.requests = <<>>]
    /\ UNCHANGED mainVars

resetForm(f) ==
  [f EXCEPT !.modal = FALSE, !.selectedDirectory = "",
            !.parentOptions = <<>>, !.parentValue = <<>>,
            !.branchName = <<>>, !.existingBranches = <<>>,
            !.requests = <<>>]

CancelClick ==
  /\ form.modal
  /\ uiFree
  /\ form' = resetForm(form)
  /\ UNCHANGED mainVars

createChecksPass(f) ==
  /\ f.selectedDirectory # ""
  /\ f.sessionType = "worktree" => f.parentValue # <<>>
  /\ f.sessionType = "worktree" => validateBranchName(f)

CreateClick ==
  /\ form.modal
  /\ uiFree
  /\ form.createEnabled
  /\ form' =
       IF createChecksPass(form)
       THEN [form EXCEPT !.createEnabled = FALSE, !.awaitingReply = TRUE,
               !.lastSettings = settingsOf(formConfig(form)),
               !.requests = <<[type |-> "save-settings",
                               config |-> formConfig(form)],
                              [type |-> "create-session",
                               config |-> formConfig(form)]>>]
       ELSE [form EXCEPT !.requests = <<>>]
  /\ UNCHANGED mainVars

(* The main process answered the create-session of the last click with
   session-created: what the listener does to the dialog.  What it does to
   the session list is in SessionCreated. *)
SessionCreatedArrives ==
  /\ form.awaitingReply
  /\ form' = [resetForm(form) EXCEPT !.createEnabled = TRUE,
                                     !.awaitingReply = FALSE]
  /\ UNCHANGED mainVars

(* The main process answered it with session-error instead.  The renderer
   registers no listener on that channel, so the message is dropped and the
   dialog stays as the click left it. *)
SessionErrorArrives ==
  /\ form.awaitingReply
  /\ form' = [form EXCEPT !.awaitingReply = FALSE, !.requests = <<>>]
  /\ UNCHANGED mainVars

NextForm ==
  \/ NewSessionClick
  \/ LastSettingsArrive
  \/ BrowseClick
  \/ DirectoryChosen
  \/ BranchesArrive
  \/ SelectSessionType
  \/ SelectParentBranch
  \/ TypeBranchName
  \/ CancelClick
  \/ CreateClick
  \/ SessionCreatedArrives
  \/ SessionErrorArrives

SpecForm == InitForm /\ [][NextForm]_vars

----------------------------------------------------------------------------
(* The application over a restart.  On window-all-closed the process quits
   (elsewhere than on macOS, where the user quits it); the next launch runs
   the module again: the store on disk and the worktrees are what they
   were, the handlers in flight and the process's children are gone, and
   createWindow sends the stored records once the page has loaded. *)
MaxRestartCreates == 2
MaxRestartPtys == 3

Relaunch ==
  /\ ~windowOpen
  /\ windowOpen' = TRUE
  /\ active' = <<>>
  /\ ptys' = <<>>
  /\ creating' = {}
  /\ deleting' = {}
  /\ sent' = <<[type |-> "load-persisted-sessions", data |-> persisted]>>
  /\ UNCHANGED <<clock, persisted, worktrees, branches, nextUuid, nCreates,
                 nDeletes, nPtys, numIn, numOut, utilVars>>

NextRestart ==
  \/ Tick
  \/ \E config \in Configs :
       windowOpen /\ nCreates < MaxRestartCreates /\ CreateStart(config)
  \/ \E c \in creating : CreateDeleteBranch(c)
  \/ \E c \in creating : CreateFinish(c)
  \/ \E sessionId \in RequestIds :
       windowOpen /\ nPtys < MaxRestartPtys /\ ReopenSession(sessionId)
  \/ \E sessionId \in RequestIds : windowOpen /\ CloseSession(sessionId)
  \/ WindowClosed
  \/ Activate
  \/ Relaunch

SpecRestart == Init /\ [][NextRestart]_vars

----------------------------------------------------------------------------
(* listMcpServers of src/main.ts.  The output of "claude mcp list" is a
   sequence of words and characters, "\n" ending a line; "CHECKMARK" is
   the character U+2713 and "CROSS" the character U+2717. *)
MaxLines == 3

Sentinel == <<"No", " ", "MCP", " ", "servers", " ", "configured">>

McpLines ==
  { <<"Checking", " ", "MCP", " ", "server", " ", "health", "...">>,
    <<"github", ":", " ", "url", " ", "-", " ", "CHECKMARK", " ", "Connected">>,
    <<"db", ":", " ", "cmd", " ", "-", " ", "CROSS", " ", "Failed">>,
    <<"web", ":", " ", "url", " ", "-", " ", "CHECKMARK">>,
    <<"api", ":", " ", "Connected">>,
    <<"solo">>,
    <<" ">>,
    Sentinel }

RECURSIVE joinLines(_)
joinLines(lines) ==
  IF lines = <<>> THEN <<>>
  ELSE IF Len(lines) = 1 THEN lines[1]
  ELSE lines[1] \o <<"\n">> \o joinLines(Tail(lines))

(* String.prototype.split("\n") *)
RECURSIVE splitInto(_, _, _)
splitInto(done, line, rest) ==
  IF rest = <<>> THEN Append(done, line)
  ELSE IF Head(rest) = "\n" THEN splitInto(Append(done, line), <<>>, Tail(rest))
  ELSE splitInto(done, Append(line, Head(rest)), Tail(rest))

split(text) == splitInto(<<>>, <<>>, text)

(* String.prototype.indexOf(":"), counted from 1; 0 when there is none *)
RECURSIVE indexOfFrom(_, _, _)
indexOfFrom(line, ch, i) ==
  IF i > Len(line) THEN 0
  ELSE IF line[i] = ch THEN i
  ELSE indexOfFrom(line, ch, i + 1)

isSkipped(line) ==
  \/ includes(line, <<"MCP", " ", "servers">>)
  \/ includes(line, <<"---">>)
  \/ includes(line, <<"Checking">>)
  \/ includes(line, <<"health">>)
  \/ trim(line) = <<>>

serverNameOf(line) ==
  LET colonIndex == indexOfFrom(line, ":", 1)
  IN  IF colonIndex > 1 THEN trim(SubSeq(line, 1, colonIndex - 1))
      ELSE trim(line)

isConnectedGlyphOnly(line) == includes(line, <<"CHECKMARK">>)

isConnected(line) ==
  includes(line, <<"CHECKMARK">>) \/ includes(line, <<"Connected">>)

RECURSIVE parseServers(_)
parseServers(lines) ==
  IF lines = <<>> THEN <<>>
  ELSE LET line == Head(lines)
           rest == parseServers(Tail(lines))
       IN  IF isSkipped(line) \/ serverNameOf(line) = <<>> THEN rest
           ELSE <<[name |-> serverNameOf(line),
                   connected |-> isConnected(line)]>> \o rest

(* exec.ok is FALSE when the command fails and execAsync rejects. *)
listMcpServers(exec) ==
  IF ~exec.ok THEN <<>>
  ELSE IF includes(exec.stdout, Sentinel) THEN <<>>
  ELSE parseServers(SelectSeq(split(trim(exec.stdout)),
                              LAMBDA line : trim(line) # <<>>))

InitMcp ==
  /\ InitIdle
  /\ utilIn \in [ok : BOOLEAN, lines : SeqsUpTo(McpLines, MaxLines)]
  /\ utilOut = <<>>

CallListMcpServers ==
  UtilCall(listMcpServers([ok |-> utilIn.ok,
                           stdout |-> joinLines(utilIn.lines)]))

NextMcp == CallListMcpServers

SpecMcp == InitMcp /\ [][NextMcp]_vars

----------------------------------------------------------------------------
(* The shell of a PTY exits on its own (the user types exit, or the shell
   is killed from outside).  spawnSessionPty registers onData only, no
   onExit: the process is gone and nothing else changes. *)
MaxExitCreates == 2
MaxExitPtys == 3

PtyExit(p) ==
  /\ ptys' = mapDelete(ptys, p)
  /\ sent' = <<>>
  /\ UNCHANGED <<clock, persisted, active, creating, deleting, worktrees,
                 branches, nextUuid, nCreates, nDeletes, nPtys, numIn, numOut,
                 windowOpen, utilVars>>

NextExit ==
  \/ Tick
  \/ \E config \in Configs :
       nCreates < MaxExitCreates /\ CreateStart(config)
  \/ \E c \in creating : CreateDeleteBranch(c)
  \/ \E c \in creating : CreateFinish(c)
  \/ \E p \in DOMAIN ptys : PtyExit(p)
  \/ \E sessionId \in RequestIds :
       nPtys < MaxExitPtys /\ ReopenSession(sessionId)
  \/ \E sessionId \in RequestIds : CloseSession(sessionId)

SpecExit == Init /\ [][NextExit]_vars

----------------------------------------------------------------------------
(* create-session with the await of git worktree add taken in two steps:
   git creates the directory and the branch while the handler is still
   suspended, and the handler continues later; other requests are handled
   in between.  CreateFinish is the two steps taken together. *)
MaxCleanupCreates == 2

CreateGitAdd(c) ==
  /\ c.pc = "add"
  /\ LET worktreePath == worktreePathOf(c.config.projectDir, c.sessionNumber)
         branchName == branchNameOf(c.config.projectDir, c.sessionNumber)
     IN /\ worktreePath \notin worktrees
        /\ branchName \notin branches
        /\ worktrees' = worktrees \cup {worktreePath}
        /\ branches' = branches \cup {branchName}
  /\ creating' = (creating \ {c}) \cup {[c EXCEPT !.pc = "added"]}
  /\ sent' = <<>>
  /\ UNCHANGED <<clock, persisted, active, ptys, deleting, nextUuid,
                 nCreates, nDeletes, nPtys, numIn, numOut, windowOpen,
                 utilVars>>

CreateContinue(c) ==
  /\ c.pc = "added"
  /\ LET worktreePath == worktreePathOf(c.config.projectDir, c.sessionNumber)
         sessionUuid == uuidv4(nextUuid + 1)
         persistedSession ==
           [id |-> c.sessionId, number |-> c.sessionNumber,
            name |-> sessionNameOf(c.sessionNumber), config |-> c.config,
            worktreePath |-> worktreePath, createdAt |-> clock,
            sessionUuid |-> sessionUuid]
     IN /\ nextUuid' = nextUuid + 1
        /\ persisted' = Append(persisted, persistedSession)
        /\ spawnSessionPty(c.sessionId, worktreePath, c.config, sessionUuid, TRUE)
        /\ sent' = send([type |-> "session-created", sessionId |-> c.sessionId,
                        data |-> persistedSession])
  /\ creating' = creating \ {c}
  /\ UNCHANGED <<clock, deleting, worktrees, branches, nCreates, nDeletes,
                 numIn, numOut, windowOpen, utilVars>>

NextCleanup ==
  \/ Tick
  \/ \E config \in Configs :
       nCreates < MaxCleanupCreates /\ CreateStart(config)
  \/ \E c \in creating, ok \in BOOLEAN : CreateRemoveExisting(c, ok)
  \/ \E c \in creating : CreateDeleteBranch(c)
  \/ \E c \in creating : CreateGitAdd(c)
  \/ \E c \in creating : CreateContinue(c)
  \/ \E c \in creating : CreateFail(c)

SpecCleanup == Init /\ [][NextCleanup]_vars

----------------------------------------------------------------------------
(* The session list, the tabs and the server list of src/renderer.ts. *)
MaxUiSessions == 2
MaxLoaded == 1
MaxTimeouts == 1
MaxReopens == 1

UiSessionIds(u) == 1..Len(u.timeouts)

(* The bounds count the pending timeouts and the replies on their way over
   all sessions. *)
RECURSIVE sumOf(_)
sumOf(counts) ==
  IF counts = <<>> THEN 0 ELSE Head(counts) + sumOf(Tail(counts))

(* sessions.get(id): the position of the session in the Map, 0 for
   undefined *)
indexOfSession(u, id) ==
  LET I == {i \in 1..Len(u.sessions) : u.sessions[i].id = id}
  IN  IF I = {} THEN 0 ELSE CHOOSE i \in I : TRUE

hasTab(u, id) ==
  indexOfSession(u, id) # 0 /\ u.sessions[indexOfSession(u, id)].tab

markSessionAsUnread(u, id) ==
  IF hasTab(u, id)
  THEN [u EXCEPT !.sessions[indexOfSession(u, id)].unread = TRUE]
  ELSE u

clearUnreadStatus(u, id) ==
  IF hasTab(u, id)
  THEN [u EXCEPT !.sessions[indexOfSession(u, id)].unread = FALSE]
  ELSE u

(* clearTimeout of the timer registered for the session, if any, and a new
   timeout in its place *)
markSessionActivity(u, id) ==
  LET i == indexOfSession(u, id)
  IN  IF i = 0 THEN u
      ELSE [u EXCEPT
              !.sessions[i] =
                IF @.tab THEN [@ EXCEPT !.activity = TRUE, !.unread = FALSE]
                ELSE @,
              !.timeouts[id] =
                IF id \in u.activityTimers THEN @ ELSE @ + 1,
              !.activityTimers = @ \cup {id}]

(* The Map entry is deleted; the timeout it held is not cleared. *)
clearActivityStatus(u, id) ==
  LET i == indexOfSession(u, id)
  IN  IF i = 0 THEN u
      ELSE [u EXCEPT
              !.sessions[i] =
                IF @.tab
                THEN [@ EXCEPT !.activity = FALSE,
                               !.unread = @ \/ u.activeSessionId # id]
                ELSE @,
              !.activityTimers = @ \ {id}]

loadMcpServers(u) ==
  IF u.activeSessionId = NoSession THEN u
  ELSE [u EXCEPT !.requests =
          Append(@, [type |-> "list-mcp-servers",
                     sessionId |-> u.activeSessionId])]

(* switchToSession without the reset of the server list *)
switchToSessionKeepingServers(u, sessionId) ==
  LET i == indexOfSession(u, sessionId)
  IN  IF i # 0 /\ u.sessions[i].terminal
      THEN clearActivityStatus(
             clearUnreadStatus(
               loadMcpServers([u EXCEPT !.activeSessionId = sessionId,
                                        !.outputSinceView = @ \ {sessionId}]),
               sessionId),
             sessionId)
      ELSE u

switchToSession(u, sessionId) ==
  LET i == indexOfSession(u, sessionId)
  IN  IF i # 0 /\ u.sessions[i].terminal
      THEN clearActivityStatus(
             clearUnreadStatus(
               loadMcpServers([u EXCEPT !.activeSessionId = sessionId,
                                        !.mcpServers = <<>>,
                                        !.mcpOf = NoSession,
                                        !.outputSinceView = @ \ {sessionId}]),
               sessionId),
             sessionId)
      ELSE u

addSession(u, id, hasActivePty) ==
  [u EXCEPT !.sessions =
              Append(@, [id |-> id, hasActivePty |-> hasActivePty,
                         terminal |-> FALSE, tab |-> hasActivePty,
                         unread |-> FALSE, activity |-> FALSE]),
            !.timeouts = Append(@, 0),
            !.reopening = Append(@, 0)]

activateSession(u, sessionId) ==
  LET i == indexOfSession(u, sessionId)
  IN  IF i = 0 THEN u
      ELSE switchToSession(
             [u EXCEPT !.sessions[i] =
                [@ EXCEPT !.terminal = TRUE, !.hasActivePty = TRUE,
                          !.tab = TRUE]],
             sessionId)

(* Array.from(sessions.values()).filter(s => s.hasActivePty) *)
activeSessions(u) == SelectSeq(u.sessions, LAMBDA s : s.hasActivePty)

(* The handlers without the switch that ends them *)
switchToRemainingNever(u, sessionId) == u

(* The end of closeSession, of deleteSession and of the session-deleted
   listener: the session that was shown is gone. *)
switchToRemaining(u, sessionId) ==
  IF u.activeSessionId = sessionId
  THEN IF Len(activeSessions(u)) > 0
       THEN switchToSession(u, activeSessions(u)[1].id)
       ELSE [u EXCEPT !.activeSessionId = NoSession]
  ELSE u

closeSession(u, sessionId) ==
  LET i == indexOfSession(u, sessionId)
  IN  IF i = 0 THEN u
      ELSE switchToRemaining(
             [u EXCEPT !.sessions[i] =
                         [@ EXCEPT !.terminal = FALSE,
                                   !.hasActivePty = FALSE, !.tab = FALSE,
                                   !.unread = FALSE, !.activity = FALSE],
                       !.requests = Append(@, [type |-> "close-session",
                                               sessionId |-> sessionId])],
             sessionId)

removeSession(u, sessionId) ==
  [u EXCEPT !.sessions = SelectSeq(@, LAMBDA s : s.id # sessionId)]

deleteSession(u, sessionId, confirmed) ==
  IF indexOfSession(u, sessionId) = 0 \/ ~confirmed THEN u
  ELSE switchToRemaining(
         [removeSession(u, sessionId) EXCEPT
            !.requests = Append(@, [type |-> "delete-session",
                                    sessionId |-> sessionId]),
            !.deleted = @ \cup {sessionId}],
         sessionId)

handleSessionClick(u, sessionId) ==
  LET i == indexOfSession(u, sessionId)
  IN  IF i = 0 THEN u
      ELSE IF u.sessions[i].hasActivePty THEN switchToSession(u, sessionId)
      ELSE [u EXCEPT !.requests = Append(@, [type |-> "reopen-session",
                                             sessionId |-> sessionId]),
                     !.reopening[sessionId] = @ + 1]

(* data.replace(/\x1b\[3J/g, '') *)
filterClearScrollback(data) == SelectSeq(data, LAMBDA c : c # "ESC[3J")

OutputChunks ==
  { <<"x">>, <<">", "CR", "LF">>, <<">", "ESC[3J", "CR", "LF">> }

(* The listener without its check of activeSessionId *)
sessionOutputOfAnySession(u, sessionId, data) ==
  LET i == indexOfSession(u, sessionId)
  IN  IF i # 0 /\ u.sessions[i].terminal /\ u.sessions[i].hasActivePty
      THEN markSessionActivity(u, sessionId)
      ELSE u

sessionOutput(u, sessionId, data) ==
  LET i == indexOfSession(u, sessionId)
      filteredData == filterClearScrollback(data)
  IN  IF i # 0 /\ u.sessions[i].terminal /\ u.activeSessionId # sessionId
      THEN LET v == [u EXCEPT !.outputSinceView = @ \cup {sessionId}]
               w == markSessionActivity(v, sessionId)
           IN  IF ~u.sessions[i].hasActivePty THEN v
               ELSE IF isClaudeSessionReady(filteredData)
               THEN [w EXCEPT
                       !.timeouts[sessionId] = @ - 1,
                       !.activityTimers = @ \ {sessionId},
                       !.sessions[i] =
                         IF @.tab THEN [@ EXCEPT !.activity = FALSE,
                                                 !.unread = TRUE]
                         ELSE @]
               ELSE w
      ELSE u

(* What every listener and click handler starts from. *)
uiIdle == [ui EXCEPT !.requests = <<>>]

(* persistedSessions.forEach(ps => addSession(ps, false)) for the sessions
   1..k *)
RECURSIVE addPersisted(_, _)
addPersisted(u, k) ==
  IF k = 0 THEN u ELSE addSession(addPersisted(u, k - 1), k, FALSE)

(* load-persisted-sessions, sent once the window has finished loading *)
LoadPersistedSessions ==
  \E k \in 0..MaxLoaded :
    /\ ~ui.loaded
    /\ ui' = [addPersisted(uiIdle, k) EXCEPT !.loaded = TRUE]
    /\ UNCHANGED <<processVars, form, pollers>>

(* session-created: the new session is added and shown, the dialog is
   closed and reset. *)
SessionCreated ==
  /\ ui.loaded
  /\ Len(ui.timeouts) < MaxUiSessions
  /\ LET sessionId == Len(ui.timeouts) + 1
     IN  ui' = activateSession(addSession(uiIdle, sessionId, TRUE), sessionId)
  /\ form' = [resetForm(form) EXCEPT !.createEnabled = TRUE,
                                     !.awaitingReply = FALSE]
  /\ UNCHANGED <<processVars, pollers>>

SessionReopened ==
  \E sessionId \in UiSessionIds(ui) :
    /\ ui.reopening[sessionId] > 0
    /\ ui' = activateSession([uiIdle EXCEPT !.reopening[sessionId] = @ - 1],
                             sessionId)
    /\ UNCHANGED <<processVars, form, pollers>>

SessionDeleted ==
  \E sessionId \in ui.deleted :
    /\ ui' = LET u == [uiIdle EXCEPT !.deleted = @ \ {sessionId}]
             IN  IF indexOfSession(u, sessionId) = 0 THEN u
                 ELSE switchToRemaining(removeSession(u, sessionId),
                                        sessionId)
    /\ UNCHANGED <<processVars, form, pollers>>

SidebarClick ==
  \E i \in 1..Len(ui.sessions) :
    /\ ui.sessions[i].hasActivePty
         \/ sumOf(ui.reopening) < MaxReopens
    /\ ui' = handleSessionClick(uiIdle, ui.sessions[i].id)
    /\ UNCHANGED <<processVars, form, pollers>>

TabClick ==
  \E i \in 1..Len(ui.sessions) :
    /\ ui.sessions[i].tab
    /\ ui' = switchToSession(uiIdle, ui.sessions[i].id)
    /\ UNCHANGED <<processVars, form, pollers>>

TabCloseClick ==
  \E i \in 1..Len(ui.sessions) :
    /\ ui.sessions[i].tab
    /\ ui' = closeSession(uiIdle, ui.sessions[i].id)
    /\ UNCHANGED <<processVars, form, pollers>>

DeleteClick ==
  \E i \in 1..Len(ui.sessions), confirmed \in BOOLEAN :
    /\ ui' = deleteSession(uiIdle, ui.sessions[i].id, confirmed)
    /\ UNCHANGED <<processVars, form, pollers>>

SessionOutput ==
  \E sessionId \in UiSessionIds(ui), data \in OutputChunks :
    /\ sessionId \in ui.activityTimers
         \/ sumOf(ui.timeouts) < MaxTimeouts
    /\ ui' = sessionOutput(uiIdle, sessionId, data)
    /\ UNCHANGED <<processVars, form, pollers>>

(* term.onBell of a terminal that has not been disposed *)
Bell ==
  \E i \in 1..Len(ui.sessions) :
    /\ ui.sessions[i].terminal
    /\ ui' = IF ui.activeSessionId # ui.sessions[i].id
             THEN markSessionAsUnread(
                    [uiIdle EXCEPT !.outputSinceView =
                                     @ \cup {ui.sessions[i].id}],
                    ui.sessions[i].id)
             ELSE uiIdle
    /\ UNCHANGED <<processVars, form, pollers>>

(* One of the pending timeouts of markSessionActivity expires. *)
ActivityTimeout ==
  \E sessionId \in UiSessionIds(ui) :
    /\ ui.timeouts[sessionId] > 0
    /\ ui' = clearActivityStatus(
               [uiIdle EXCEPT !.timeouts[sessionId] = @ - 1], sessionId)
    /\ UNCHANGED <<processVars, form, pollers>>

NextTabs ==
  \/ LoadPersistedSessions
  \/ SessionCreated
  \/ SessionReopened
  \/ SessionDeleted
  \/ SidebarClick
  \/ TabClick
  \/ TabCloseClick
  \/ DeleteClick
  \/ SessionOutput
  \/ Bell
  \/ ActivityTimeout

SpecTabs == Init /\ [][NextTabs]_vars

----------------------------------------------------------------------------
(* The server list.  The status poller of a session is a hidden shell in
   which the listing command is written again and again; what the shell
   prints is appended to the buffer of the poller, parsed, and sent to the
   renderer as mcp-servers-updated(sessionId, servers).  A poller record
   holds the buffer (a sequence of lines) and the last result; output is
   what the shell has still to print, listing the listing it is printing or
   has printed last, complete whether all of it has been fed to the poller,
   omits whether it lacks an entity of the listing before it. *)
MaxChunkLines == 2
MaxEvents == 1
MaxPolledSessions == 1

TransportTypes == {"stdio", "sse", "http"}

StatusGlyphs == {"CHECKMARK", "WARNING", "CROSS"}

toLowerCase(token) ==
  IF token = "HTTP" THEN "http"
  ELSE IF token = "SSE" THEN "sse"
  ELSE IF token = "STDIO" THEN "stdio"
  ELSE token

PromptToken == <<"$", " ">>

StatusCommand == <<"claude", " ", "mcp", " ", "list">>

HealthHeader == <<"Checking", " ", "MCP", " ", "server", " ", "health", "...">>

GithubLine ==
  <<"github", ":", " ", "url", " ", "(", "HTTP", ")", " ", "-", " ",
    "CHECKMARK", " ", "Connected">>

DbLine ==
  <<"db", ":", " ", "cmd", " ", "(", "stdio", ")", " ", "-", " ", "CROSS",
    " ", "Failed">>

Listings ==
  { <<HealthHeader, GithubLine, DbLine>>, <<DbLine>>, <<Sentinel>> }


(* <name>: <details> (<transport-type>) - <status-glyph> *)
isStatusLine(line) ==
  \E i \in 2..Len(line) :
    /\ line[i] = ":"
    /\ \E j \in (i + 1)..(Len(line) - 6) :
         /\ line[j] = "("
         /\ toLowerCase(line[j + 1]) \in TransportTypes
         /\ line[j + 2] = ")"
         /\ SubSeq(line, j + 3, j + 5) = <<" ", "-", " ">>
         /\ line[j + 6] \in StatusGlyphs

hasStatus(lines) ==
  \E k \in 1..Len(lines) :
    isStatusLine(lines[k]) \/ includes(lines[k], Sentinel)

RECURSIVE parseStatusLines(_)
parseStatusLines(lines) ==
  IF lines = <<>> THEN <<>>
  ELSE LET line == Head(lines)
           rest == parseStatusLines(Tail(lines))
       IN  IF isStatusLine(line)
           THEN <<[name |-> serverNameOf(line),
                   connected |-> isConnected(line)]>> \o rest
           ELSE rest

namesOf(servers) == {servers[k].name : k \in 1..Len(servers)}

(* The results a poller can send *)
ServerLists == {parseStatusLines(listing) : listing \in Listings}

PollerSpawned ==
  [buffer |-> <<>>, result |-> <<>>, output |-> <<PromptToken>>,
   listing |-> <<>>, complete |-> FALSE, omits |-> FALSE]

(* Once the session is attached, a poller is spawned for it if it has
   none. *)
PollerSpawn ==
  \E i \in 1..Len(ui.sessions) :
    /\ ui.sessions[i].hasActivePty
    /\ ui.sessions[i].id \notin DOMAIN pollers
    /\ pollers' = mapSet(pollers, ui.sessions[i].id, PollerSpawned)
    /\ UNCHANGED <<processVars, form, ui>>

(* The loop writes the listing command to the shell, which is at its
   prompt: the shell will echo it, print the complete current listing and
   show its prompt again. *)
PollerWrite ==
  \E sessionId \in DOMAIN pollers, listing \in Listings :
    /\ pollers[sessionId].output = <<>>
    /\ pollers' =
         [pollers EXCEPT ![sessionId] =
            [@ EXCEPT !.output = <<StatusCommand>> \o listing
                                   \o <<PromptToken>>,
                      !.listing = listing,
                      !.complete = FALSE,
                      !.omits = namesOf(parseStatusLines(pollers[sessionId].listing))
                                  \ namesOf(parseStatusLines(listing))
                                  # {}]]
    /\ UNCHANGED <<processVars, form, ui>>

(* The part of the buffer a chunk leaves: nothing once the prompt has
   reappeared after the command. *)
bufferAfter(buffer, chunk) ==
  IF /\ \E k \in 1..Len(chunk) : includes(chunk[k], PromptToken)
     /\ \E k \in 1..Len(buffer) : includes(buffer[k], StatusCommand)
  THEN <<>>
  ELSE buffer

pollerData(poller, chunk) ==
  LET buffer == poller.buffer \o chunk
      rest == SubSeq(poller.output, Len(chunk) + 1, Len(poller.output))
  IN  [poller EXCEPT
         !.buffer = bufferAfter(buffer, chunk),
         !.result = IF hasStatus(chunk) \/ hasStatus(buffer)
                    THEN parseStatusLines(buffer) ELSE @,
         !.output = rest,
         !.complete = poller.listing # <<>> /\ Len(rest) <= 1]

(* A chunk of the shell's output reaches the poller; a successful parse is
   sent to the renderer. *)
PollerData ==
  \E sessionId \in DOMAIN pollers, n \in 1..MaxChunkLines :
    /\ n <= Len(pollers[sessionId].output)
    /\ Len(ui.mcpEvents) < MaxEvents
    /\ LET chunk == SubSeq(pollers[sessionId].output, 1, n)
           poller == pollerData(pollers[sessionId], chunk)
       IN  /\ pollers' = [pollers EXCEPT ![sessionId] = poller]
           /\ ui' = IF hasStatus(chunk)
                       \/ hasStatus(pollers[sessionId].buffer \o chunk)
                    THEN [ui EXCEPT !.mcpEvents =
                            Append(@, [sessionId |-> sessionId,
                                       servers |-> poller.result])]
                    ELSE ui
    /\ UNCHANGED <<processVars, form>>

(* The listener with the servers added to the list it holds *)
mcpServersUpdatedMerging(u, sessionId, servers) ==
  IF sessionId = u.activeSessionId
  THEN [u EXCEPT !.mcpServers =
                   @ \o SelectSeq(servers,
                                  LAMBDA s : s.name \notin namesOf(u.mcpServers)),
                 !.mcpOf = sessionId, !.mcpIgnored = FALSE]
  ELSE [u EXCEPT !.mcpIgnored = TRUE]

mcpServersUpdated(u, sessionId, servers) ==
  IF sessionId = u.activeSessionId
  THEN [u EXCEPT !.mcpServers = servers, !.mcpOf = sessionId,
                 !.mcpIgnored = FALSE]
  ELSE [u EXCEPT !.mcpIgnored = TRUE]

McpServersUpdated ==
  /\ ui.mcpEvents # <<>>
  /\ ui' = mcpServersUpdated([uiIdle EXCEPT !.mcpEvents = Tail(@)],
                             Head(ui.mcpEvents).sessionId,
                             Head(ui.mcpEvents).servers)
  /\ UNCHANGED <<processVars, form, pollers>>

(* The remove button of a list item, confirmed: the server is taken from
   the list at once. *)
RemoveServerClick ==
  \E k \in 1..Len(ui.mcpServers) :
    /\ ui' = [uiIdle EXCEPT
                !.mcpServers =
                  SelectSeq(@, LAMBDA s : s.name # ui.mcpServers[k].name),
                !.requests = <<[type |-> "remove-mcp-server",
                                sessionId |-> NoSession]>>]
    /\ UNCHANGED <<processVars, form, pollers>>

(* A poller has parsed a listing of its session and sends the result. *)
ServersEmitted ==
  \E i \in 1..Len(ui.sessions), servers \in ServerLists :
    /\ ui.sessions[i].hasActivePty
    /\ Len(ui.mcpEvents) < MaxEvents
    /\ ui' = [ui EXCEPT !.mcpEvents =
                 Append(@, [sessionId |-> ui.sessions[i].id,
                            servers |-> servers])]
    /\ UNCHANGED <<processVars, form, pollers>>

NextPoller ==
  \/ LoadPersistedSessions
  \/ SessionCreated /\ Len(activeSessions(ui)) < MaxPolledSessions
  \/ PollerSpawn
  \/ PollerWrite
  \/ PollerData
  \/ McpServersUpdated

SpecPoller == Init /\ [][NextPoller]_vars

NextServers ==
  \/ LoadPersistedSessions
  \/ SessionCreated
  \/ TabClick
  \/ TabCloseClick
  \/ ServersEmitted
  \/ McpServersUpdated
  \/ RemoveServerClick

SpecServers == Init /\ [][NextServers]_vars

----------------------------------------------------------------------------
(* Properties *)

PersistedIndices == 1..Len(persisted)
LivePtysOf(sessionId) == {p \in DOMAIN ptys : ptys[p].sessionId = sessionId}

(* C1: no two records of the persisted collection have the same number. *)
C1_NumbersUnique ==
  \A i, j \in PersistedIndices :
    i # j => persisted[i].number # persisted[j].number

(* C2: getNextSessionNumber gives 1 for an empty collection and otherwise a
   number that exceeds every persisted number by at least one and one of
   them by exactly one; numbers 1, 3, 4 give 5. *)
C2_NextNumberIsMaxPlusOne ==
  numOut # 0 =>
    /\ Len(numIn) = 0 => numOut = 1
    /\ Len(numIn) > 0 =>
         /\ \A i \in 1..Len(numIn) : numIn[i] < numOut
         /\ \E i \in 1..Len(numIn) : numIn[i] = numOut - 1
    /\ numIn = <<1, 3, 4>> => numOut = 5

(* C2, reached: the numbers 1, 3, 4 gave 5. *)
C2_GapNotFilled == numIn = <<1, 3, 4>> /\ numOut = 5

(* C3: at most one running PTY per session id, and every running PTY is the
   one the process map holds under its session id. *)
C3_OneMappedPtyPerSession ==
  \A p \in DOMAIN ptys :
    /\ ptys[p].sessionId \in DOMAIN active
    /\ active[ptys[p].sessionId] = p

(* C4: no two records of the persisted collection have the same id. *)
C4_IdsUnique ==
  \A i, j \in PersistedIndices : i # j => persisted[i].id # persisted[j].id

(* C5: between two consecutive automatically typed lines of a PTY at least
   one further output chunk, the one carrying the new readiness signal,
   has arrived. *)
C5_SetupCommandsGated ==
  \A p \in DOMAIN ptys :
    \A k \in 1..(Len(ptys[p].writes) - 1) :
      ptys[p].writes[k].at < ptys[p].writes[k + 1].at

(* The lines that launch an agent, for every uuid the model can draw. *)
AgentLaunchLines ==
  {"codex\r"} \cup
  {"claude " \o flag \o uuidv4(k) \o skip \o "\r" :
     flag \in {"--session-id ", "--resume "}, k \in 1..MaxCreates,
     skip \in {"", " --dangerously-skip-permissions"}}

(* C6: the automatically typed lines of a PTY are none before the terminal
   is ready, and afterwards the setup commands in list order, each once and
   each ended by a carriage return, followed by one agent launch line; no
   agent launch line stands before the last setup command. *)
C6_TypedLinesInOrder ==
  \A p \in DOMAIN ptys :
    LET typed == ptys[p].writes
        cmds == ptys[p].config.setupCommands
    IN IF ~ptys[p].terminalReady THEN typed = <<>>
       ELSE /\ Len(typed) = Len(cmds) + 1
            /\ \A k \in 1..Len(cmds) :
                 /\ typed[k].data = cmds[k] \o "\r"
                 /\ typed[k].data \notin AgentLaunchLines
            /\ typed[Len(typed)].data \in AgentLaunchLines

(* C6, reached: a reopened PTY with two setup commands has typed its lines. *)
C6_ReopenedWithSetupTyped ==
  \E p \in DOMAIN ptys :
    /\ ptys[p].terminalReady
    /\ ~ptys[p].isNewSession
    /\ Len(ptys[p].config.setupCommands) = 2
    /\ Len(ptys[p].writes) = 3

(* The claude launch lines that carry the given flag and uuid. *)
ClaudeLines(flag, sessionUuid) ==
  {"claude " \o flag \o sessionUuid \o skip \o "\r" :
     skip \in {"", " --dangerously-skip-permissions"}}

(* C7: for every persisted claude session, the PTY spawned when it was
   created launches claude with --session-id and the stored sessionUuid,
   and every PTY spawned by a reopen-session of its id launches claude with
   --resume and the stored sessionUuid. *)
C7_LaunchCarriesStoredUuid ==
  \A i \in PersistedIndices : \A p \in DOMAIN ptys :
    LET r == persisted[i]
        q == ptys[p]
        launch == q.writes[Len(q.writes)].data
    IN (r.config.codingAgent = "claude" /\ q.terminalReady) =>
         /\ (q.isNewSession /\ q.sessionUuid = r.sessionUuid) =>
              launch \in ClaudeLines("--session-id ", r.sessionUuid)
         /\ (~q.isNewSession /\ q.sessionId = r.id) =>
              launch \in ClaudeLines("--resume ", r.sessionUuid)

(* Records are followed from one state to the next by their sessionUuid. *)
UuidsOf(sessions) == {sessions[i].sessionUuid : i \in 1..Len(sessions)}
RecordOf(sessions, u) ==
  sessions[CHOOSE i \in 1..Len(sessions) : sessions[i].sessionUuid = u]

(* C8: a record of the persisted collection changes in a step only when the
   step is a rename-session of its id, and then only in its name; a
   rename-session of an id without a record changes nothing. *)
C8_OnlyRenameChangesARecord ==
  [][ /\ \A u \in UuidsOf(persisted) \cap UuidsOf(persisted') :
           LET old == RecordOf(persisted, u)
               new == RecordOf(persisted', u)
           IN /\ new.id = old.id /\ new.number = old.number
              /\ new.config = old.config
              /\ new.worktreePath = old.worktreePath
              /\ new.createdAt = old.createdAt
              /\ new.name # old.name =>
                   \E newName \in NewNames :
                     /\ RenameSession(old.id, newName)
                     /\ new.name = newName
      /\ \A sessionId \in RequestIds, newName \in NewNames :
           (RenameSession(sessionId, newName)
              /\ findIndex(persisted, sessionId) = 0) =>
             persisted' = persisted
    ]_vars

(* C9: close-session of an id with a running PTY leaves no running PTY and
   no map entry for the id; close-session of an id without a running PTY
   leaves the map as it is; in both cases the persisted collection stays. *)
C9_CloseKillsAndKeepsRecord ==
  [][ \A sessionId \in RequestIds :
        CloseSession(sessionId) =>
          /\ persisted' = persisted
          /\ IF LivePtysOf(sessionId) # {}
             THEN /\ \A p \in DOMAIN ptys' : ptys'[p].sessionId # sessionId
                  /\ sessionId \notin DOMAIN active'
             ELSE active' = active /\ ptys' = ptys
    ]_vars

(* C10: when a delete-session handler finishes, whether or not the worktree
   removal succeeded, the collection has no record of the id, no PTY of the
   id runs or is in the map, and session-deleted was sent. *)
C10_DeleteAlwaysCompletes ==
  [][ \A d \in deleting : \A ok \in BOOLEAN :
        DeleteFinish(d, ok) =>
          /\ \A i \in 1..Len(persisted') : persisted'[i].id # d.sessionId
          /\ d.sessionId \notin DOMAIN active'
          /\ \A p \in DOMAIN ptys' : ptys'[p].sessionId # d.sessionId
          /\ sent' = <<[type |-> "session-deleted", sessionId |-> d.sessionId,
                        data |-> ""]>>
    ]_vars

(* C11: when a delete-session handler finishes and git worktree remove
   succeeded, neither the worktree of the session nor the branch that was
   created for the session exists. *)
C11_DeleteRemovesWorktreeAndBranch ==
  [][ \A d \in deleting :
        DeleteFinish(d, TRUE) =>
          LET session == d.sessions[d.sessionIndex]
          IN /\ session.worktreePath \notin worktrees'
             /\ branchNameOf(session.config.projectDir, session.number)
                  \notin branches'
    ]_vars

(* C12: when a delete-session handler finishes, the process map has no entry
   and the collection no record for its id, whatever close-session and
   reopen-session requests of the id were handled during the await. *)
C12_DeleteLeavesNoEntryNoRecord ==
  [][ \A d \in deleting : \A ok \in BOOLEAN :
        DeleteFinish(d, ok) =>
          /\ d.sessionId \notin DOMAIN active'
          /\ findIndex(persisted', d.sessionId) = 0
    ]_vars

(* The records of a collection that belong to other ids than the given. *)
OthersOf(sessions, sessionId) ==
  SelectSeq(sessions, LAMBDA r : r.id # sessionId)

(* C13: when a delete-session handler finishes, every record of another
   session that the collection held just before, whether created or renamed
   during the await, is still there with the same content: only the
   records of the deleted id are gone. *)
C13_DeleteKeepsOtherRecords ==
  [][ \A d \in deleting : \A ok \in BOOLEAN :
        DeleteFinish(d, ok) =>
          OthersOf(persisted', d.sessionId) = OthersOf(persisted, d.sessionId)
    ]_vars

(* The replies of the given type in a list of messages. *)
RepliesOf(msgs, type) == {k \in 1..Len(msgs) : msgs[k].type = type}

(* C14: the step of a create-session in which git worktree add fails sends
   one session-error and no session-created, adds no record, spawns no PTY
   and leaves the process map as it is; the steps of the request before it
   send no reply and touch neither the collection nor the map. *)
C14_WorktreeFailureIsOneError ==
  [][ /\ \A c \in creating :
           CreateFail(c) =>
             /\ Cardinality(RepliesOf(sent', "session-error")) = 1
             /\ RepliesOf(sent', "session-created") = {}
             /\ persisted' = persisted
             /\ nPtys' = nPtys /\ ptys' = ptys
             /\ active' = active
      /\ \A c \in creating :
           CreateDeleteBranch(c) =>
             /\ sent' = <<>> /\ persisted' = persisted
             /\ ptys' = ptys /\ active' = active
      /\ \A config \in Configs :
           CreateStart(config) =>
             /\ sent' = <<>> /\ persisted' = persisted
             /\ ptys' = ptys /\ active' = active
    ]_vars

(* C14, reached: a create-session ended with session-error and without a
   record while another session has a record and a running PTY. *)
C14_WorktreeErrorNextToASession ==
  /\ Len(sent) = 1
  /\ sent[1].type = "session-error"
  /\ findIndex(persisted, sent[1].sessionId) = 0
  /\ persisted # <<>>
  /\ DOMAIN active # {}

(* C15: the step that ends a create-session sends exactly one reply, either
   session-created or session-error, and when it sends session-error it
   leaves the collection and the process map as they were, whether the
   worktree creation or the PTY spawn failed. *)
C15_ErrorLeavesNothingBehind ==
  [][ \A c \in creating :
        (\A e \in creating' : e.req # c.req) =>
          /\ Cardinality(RepliesOf(sent', "session-created")
                           \cup RepliesOf(sent', "session-error")) = 1
          /\ RepliesOf(sent', "session-error") # {} =>
               /\ persisted' = persisted
               /\ active' = active
    ]_vars

(* The PTY has typed a line that launches an agent. *)
AgentLaunched(q) ==
  \E k \in 1..Len(q.writes) : q.writes[k].data \in AgentLaunchLines

(* C16: once the agent launch line has been typed into a PTY, no step types
   anything more into it, whatever the output chunks that follow contain. *)
C16_NothingTypedAfterLaunch ==
  [][ \A p \in (DOMAIN ptys) \cap (DOMAIN ptys') :
        AgentLaunched(ptys[p]) =>
          /\ ptys'[p].writes = ptys[p].writes
          /\ ptys'[p].terminalReady
    ]_vars

(* C16, reached: a PTY whose agent was launched at an earlier chunk has
   just emitted a chunk that ends with a prompt character. *)
C16_PromptAgainAfterLaunch ==
  \E p \in DOMAIN ptys :
    /\ AgentLaunched(ptys[p])
    /\ ptys[p].writes[Len(ptys[p].writes)].at < ptys[p].nchunks
    /\ sent = <<[type |-> "session-output", sessionId |-> ptys[p].sessionId,
                 data |-> <<"$">>]>>

(* C17: while the window exists, the step in which a PTY emits an output
   chunk sends exactly one message, session-output with the session id of
   that PTY and the chunk as emitted, whether the PTY is not yet ready,
   becomes ready with this chunk or has launched its agent. *)
C17_EveryChunkForwarded ==
  [][ \A p \in DOMAIN ptys : \A data \in Chunks \cup DriverChunks :
        (windowOpen /\ PtyData(p, data)) =>
          sent' = <<[type |-> "session-output",
                     sessionId |-> ptys[p].sessionId, data |-> data]>>
    ]_vars

(* C17, reached: a PTY that is not ready after two chunks has just had its
   second chunk forwarded. *)
C17_ForwardedBeforeReady ==
  \E p \in DOMAIN ptys :
    /\ ~ptys[p].terminalReady
    /\ ptys[p].nchunks = 2
    /\ Len(sent) = 1
    /\ sent[1].type = "session-output"
    /\ sent[1].sessionId = ptys[p].sessionId
    /\ sent[1].data = <<"x">>

(* All PTYs except the given one are as they were. *)
OtherPtysUnchanged(p) ==
  /\ DOMAIN ptys' = DOMAIN ptys
  /\ \A o \in (DOMAIN ptys) \ {p} : ptys'[o] = ptys[o]

(* C18: session-input and session-resize for an id without an entry in the
   process map change no PTY, nor the map, nor the collection; for an id
   with an entry the data is written to, or the size set on, the PTY the
   map holds for the id, which is a PTY of that session, and no other PTY,
   whether or not that PTY is ready; the map and the collection stay. *)
C18_InputAndResizeReachTheirPty ==
  [][ /\ \A sessionId \in RequestIds, data \in Inputs :
           SessionInput(sessionId, data) =>
             /\ active' = active /\ persisted' = persisted
             /\ IF sessionId \notin DOMAIN active THEN ptys' = ptys
                ELSE LET p == active[sessionId] IN
                     /\ ptys[p].sessionId = sessionId
                     /\ ptys'[p] =
                          [ptys[p] EXCEPT !.input = Append(@, data)]
                     /\ OtherPtysUnchanged(p)
      /\ \A sessionId \in RequestIds, size \in Sizes :
           SessionResize(sessionId, size.cols, size.rows) =>
             /\ active' = active /\ persisted' = persisted
             /\ IF sessionId \notin DOMAIN active THEN ptys' = ptys
                ELSE LET p == active[sessionId] IN
                     /\ ptys[p].sessionId = sessionId
                     /\ ptys'[p] = [ptys[p] EXCEPT !.cols = size.cols,
                                                   !.rows = size.rows]
                     /\ OtherPtysUnchanged(p)
    ]_vars

(* C18, reached: of the running PTYs of two sessions, one that is not yet
   ready has received a keystroke and a new size, the other neither. *)
C18_OnlyOnePtyReached ==
  \E p, o \in DOMAIN ptys :
    /\ ptys[p].sessionId # ptys[o].sessionId
    /\ ptys[p].sessionId \in DOMAIN active
    /\ ptys[o].sessionId \in DOMAIN active
    /\ ~ptys[p].terminalReady
    /\ ptys[p].input = <<"k">> /\ ptys[p].cols = 120 /\ ptys[p].rows = 40
    /\ ptys[o].input = <<>> /\ ptys[o].cols = 80 /\ ptys[o].rows = 30

(* The elements of a branch list that are, or are not, literally "main"
   or "master", in list order. *)
MainsOf(branchList) ==
  SelectSeq(branchList, LAMBDA a : a \in {"main", "master"})
OthersIn(branchList) ==
  SelectSeq(branchList, LAMBDA a : a \notin {"main", "master"})

(* C19: in the result of sortBranchesWithMainFirst every element equal to
   "main" or "master" stands before every other element, and the other
   elements stand in the order they had in the argument. *)
C19_MainAndMasterFirst ==
  brCalled =>
    /\ \A i, j \in 1..Len(brOut) :
         (/\ brOut[i] \in {"main", "master"}
          /\ brOut[j] \notin {"main", "master"}) => i < j
    /\ OthersIn(brOut) = OthersIn(brIn)

(* C19, reached: master and main were moved to the front of a list in which
   other names stood before and between them. *)
C19_BothMovedToFront ==
  /\ brCalled
  /\ brIn = <<"develop", "master", "main-branch", "main">>
  /\ brOut = <<"master", "main", "develop", "main-branch">>

(* The number of times a name occurs in a branch list. *)
CountOf(branchList, name) ==
  Cardinality({i \in 1..Len(branchList) : branchList[i] = name})

(* C20: the result of sortBranchesWithMainFirst has the length of the
   argument and every name as often as the argument; an empty or one-element
   argument is returned as it is; a list without a literal "main" or
   "master" is returned as it is even when a name contains "main", and such
   a name never stands before a literal "main" or "master". *)
C20_PermutationSubstringNotMoved ==
  brCalled =>
    /\ Len(brOut) = Len(brIn)
    /\ \A name \in BranchNames : CountOf(brOut, name) = CountOf(brIn, name)
    /\ Len(brIn) <= 1 => brOut = brIn
    /\ MainsOf(brIn) = <<>> => brOut = brIn
    /\ \A i, j \in 1..Len(brOut) :
         (brOut[i] = "main-branch" /\ brOut[j] \in {"main", "master"})
           => j < i

(* C20, reached: a list with the name main-branch twice and main between
   was sorted; main-branch stays behind main, both times. *)
C20_SubstringNameStaysBehind ==
  /\ brCalled
  /\ brIn = <<"main-branch", "main", "main-branch">>
  /\ brOut = <<"main", "main-branch", "main-branch">>

(* C21: getBranches resolves, never rejects; when the git query succeeded
   its value is the branch list of the repository with the literal main and
   master names first and both groups in repository order (empty for an
   empty repository list), and when the query failed it is the empty
   list. *)
C21_BranchesSortedOrEmpty ==
  utilOut # <<>> =>
    /\ ~utilOut[1].rejected
    /\ utilIn.ok =>
         /\ utilOut[1].value = MainsOf(utilIn.all) \o OthersIn(utilIn.all)
         /\ utilIn.all = <<>> => utilOut[1].value = <<>>
    /\ ~utilIn.ok => utilOut[1].value = <<>>

(* C21, reached: the git query failed in a repository that has branches,
   and getBranches resolved with the empty list. *)
C21_FailedQueryGivesEmpty ==
  /\ utilOut = <<[rejected |-> FALSE, value |-> <<>>]>>
  /\ ~utilIn.ok
  /\ utilIn.all = <<"develop", "main">>

(* The zero-based indices at which a complete marker starts in a buffer. *)
MarkerStarts(buffer) ==
  {i \in 0..(Len(buffer) - Len(Marker)) :
     \A k \in 1..Len(Marker) : buffer[i + k] = Marker[k]}

(* C22: isTerminalReady(buffer, offset) is true exactly when a complete
   marker starts in the buffer at an index of at least offset; so it is
   false for an offset advanced to the length of the buffer, and for a
   buffer with exactly one marker in front of the offset and one behind it,
   it is true at the offset and false once the offset is advanced again. *)
C22_ReadyIffMarkerFromOffset ==
  utilOut # <<>> =>
    /\ utilOut[1] = (\E i \in MarkerStarts(utilIn.buffer) :
                       i >= utilIn.startPos)
    /\ utilIn.startPos >= Len(utilIn.buffer) => utilOut[1] = FALSE

(* C22, reached: in a buffer with a marker, other text and a second marker
   the scan from behind the first marker fired. *)
C22_SecondMarkerFires ==
  /\ utilOut = <<TRUE>>
  /\ utilIn.buffer = Marker \o <<"x">> \o Marker
  /\ utilIn.startPos = Len(Marker)

(* The prompt tokens and the bare prompt characters of the readiness test. *)
PromptTokens ==
  { <<"$", " ">>, <<"%", " ">>, <<">", " ">>, <<"ARROW", " ">>,
    <<"ARROW", " ", " ">>, <<"CROSS", " ">>, <<"CHECK", " ">> }
PromptChars == {"$", "%", ">", "ARROW", "CROSS", "CHECK"}

(* The text holds the marker or a prompt token, or ends with a prompt
   character. *)
ShowsPrompt(text) ==
  \/ \E i \in 1..Len(text) : \E tok \in PromptTokens \cup {Marker} :
       /\ i + Len(tok) - 1 <= Len(text)
       /\ \A k \in 1..Len(tok) : text[i + k - 1] = tok[k]
  \/ Len(text) > 0 /\ text[Len(text)] \in PromptChars

(* C23: at every output chunk of a PTY that is not yet ready the chunk is
   appended to what was received since the spawn, and the PTY becomes ready
   and types its lines with this chunk exactly when the text received so
   far shows a prompt; so it is ready at the first such chunk, not before,
   also when the marker arrives in two chunks. *)
C23_ReadyAtFirstPromptInAllOutput ==
  [][ \A p \in (DOMAIN ptys) \cap (DOMAIN ptys') :
        (~ptys[p].terminalReady /\ ptys'[p].nchunks = ptys[p].nchunks + 1) =>
          /\ ~ShowsPrompt(ptys[p].dataBuffer)
          /\ ptys'[p].dataBuffer = ptys[p].dataBuffer \o sent'[1].data
          /\ ptys'[p].terminalReady = ShowsPrompt(ptys'[p].dataBuffer)
          /\ ptys'[p].terminalReady =>
               /\ ptys'[p].writes # <<>>
               /\ ptys'[p].writes[1].at = ptys'[p].nchunks
          /\ ~ptys'[p].terminalReady => ptys'[p].writes = <<>>
    ]_vars

(* C23, reached: a PTY became ready at its third chunk, which completed a
   marker begun by the second. *)
C23_SplitMarkerFires ==
  \E p \in DOMAIN ptys :
    /\ ptys[p].terminalReady
    /\ ptys[p].dataBuffer = <<"x">> \o Marker
    /\ ptys[p].nchunks = 3
    /\ ptys[p].writes[1].at = 3

(* C24: isClaudeSessionReady(buffer) is true exactly when the buffer has a
   ">" directly followed by carriage return and line feed; it is false for
   a prompt followed by a space or by text before the line break and for a
   ">" inside other text. *)
C24_ReadyIffBarePromptLine ==
  utilOut # <<>> =>
    /\ utilOut[1] = (\E i \in 1..(Len(utilIn) - 2) :
                       /\ utilIn[i] = ">"
                       /\ utilIn[i + 1] = "CR"
                       /\ utilIn[i + 2] = "LF")
    /\ utilIn \in { <<">", " ", "CR", "LF">>, <<">", "x", "CR", "LF">>,
                    <<"x", ">", "x">> } => utilOut[1] = FALSE

(* C24, reached: text that ends with a bare prompt line was found ready. *)
C24_BarePromptLineFound ==
  /\ utilOut = <<TRUE>>
  /\ utilIn = <<"x", ">", "CR", "LF">>

(* C25: the claude launch command is "claude", one space, the session flag
   (--session-id or --resume with the uuid), then one space and
   --dangerously-skip-permissions exactly when skipPermissions is set, and
   a carriage return directly behind the last flag. *)
C25_LaunchCommandFlags ==
  utilOut # <<>> =>
    utilOut[1] =
      "claude"
        \o (IF utilIn.isNewSession THEN " --session-id" ELSE " --resume")
        \o " " \o utilIn.sessionUuid
        \o (IF utilIn.config.skipPermissions
            THEN " --dangerously-skip-permissions" ELSE "")
        \o "\r"

(* C25, reached: a reopened session without skipPermissions got a command
   that ends directly behind the uuid. *)
C25_ResumeWithoutSkipFlag ==
  /\ utilOut = <<"claude --resume u2\r">>
  /\ ~utilIn.isNewSession
  /\ ~utilIn.config.skipPermissions


(* The checks of the Create click, made on the repository of the selected
   directory. *)
formChecksOnSelectedRepository ==
  /\ form.selectedDirectory # ""
  /\ form.sessionType = "worktree" =>
       /\ form.parentValue # <<>>
       /\ LET name == trim(form.branchName)
          IN  name = <<>>
              \/ ~branchExists(RepoBranches(form.selectedDirectory), name)

(* C26: a click on Create sends create-session only when a project
   directory is selected and, for a worktree session, a parent branch is
   selected and the entered name equals no branch B, and no origin/B, of
   the selected directory's repository; when a check fails the click sends
   nothing, neither create-session nor save-settings. *)
C26_CreateOnlyWhenChecksPass ==
  [][form'.requests # <<>> => formChecksOnSelectedRepository]_vars

(* C27: sessions survive a restart.  Closing the window leaves no live PTY
   and an empty process map and does not touch the persisted collection;
   the next start delivers every persisted record in
   load-persisted-sessions; and reopening a persisted session spawns its
   PTY in the stored worktree path with the stored configuration and
   session UUID. *)
C27_SessionsSurviveRestart ==
  [][/\ (windowOpen /\ ~windowOpen') =>
          /\ DOMAIN ptys' = {}
          /\ DOMAIN active' = {}
          /\ persisted' = persisted
     /\ (~windowOpen /\ windowOpen') =>
          /\ persisted' = persisted
          /\ sent' = <<[type |-> "load-persisted-sessions",
                        data |-> persisted]>>
     /\ \A i \in 1..Len(persisted) :
          (/\ nPtys' = nPtys + 1
           /\ ~ptys'[nPtys'].isNewSession
           /\ ptys'[nPtys'].sessionId = persisted[i].id)
          => /\ ptys'[nPtys'].cwd = persisted[i].worktreePath
             /\ ptys'[nPtys'].config = persisted[i].config
             /\ ptys'[nPtys'].sessionUuid = persisted[i].sessionUuid]_vars

(* C28: the branch name generated for a newly created session is the
   name of no branch generated for a session of the same repository that
   was created before the request, also when that session was deleted and
   its number is used again: when the request starts, its branch is not in
   the repository. *)
C28_GeneratedBranchIsNew ==
  [][nCreates' = nCreates + 1 =>
       \A c \in creating' \ creating :
         branchNameOf(c.config.projectDir, c.sessionNumber) \notin branches]_vars

(* C29: worktree paths are deterministic and collision-free across
   projects: two distinct project paths, also with the same base directory
   name, give two distinct worktree directories, and the same project path
   and session number give the same directory again. *)
C29_WorktreePathsCollisionFree ==
  utilOut # <<>> =>
    /\ utilIn.projectDir1 # utilIn.projectDir2
         => utilOut[1].path1 # utilOut[1].path2
    /\ (utilIn.projectDir1 = utilIn.projectDir2
        /\ utilIn.number1 = utilIn.number2)
         => utilOut[1].path1 = utilOut[1].path2

(* C29: two projects with the same base name and the same session number
   were provisioned. *)
C29_SameBaseNameDistinctPaths ==
  /\ utilOut # <<>>
  /\ utilIn.projectDir1 = <<"a", "proj">>
  /\ utilIn.projectDir2 = <<"b", "proj">>
  /\ utilIn.number1 = utilIn.number2
  /\ utilOut[1].path1 = <<"a", "proj", ".fleetcode", "session1">>
  /\ utilOut[1].path2 = <<"b", "proj", ".fleetcode", "session1">>

(* The lines of the command's output, when it ran, that begin with the
   name of an entity. *)
StatusLinesOf(entity) ==
  {k \in 1..Len(utilIn.lines) :
     /\ Len(utilIn.lines[k]) >= Len(entity.name)
     /\ SubSeq(utilIn.lines[k], 1, Len(entity.name)) = entity.name}

HasWord(line, words) == \E k \in 1..Len(line) : line[k] \in words

(* C30: every parsed server entity has connected = TRUE exactly when its
   status line contains the success glyph or the word Connected; header,
   status-message and blank lines give no entity; and output with the "No
   MCP servers configured" sentinel gives the empty list. *)
C30_ConnectedIffGlyphOrWord ==
  utilOut # <<>> =>
    /\ \A i \in 1..Len(utilOut[1]) :
         /\ StatusLinesOf(utilOut[1][i]) # {}
         /\ \A k \in StatusLinesOf(utilOut[1][i]) :
              /\ utilOut[1][i].connected
                   <=> HasWord(utilIn.lines[k], {"CHECKMARK", "Connected"})
              /\ ~HasWord(utilIn.lines[k], {"Checking", "health", "---"})
              /\ utilIn.lines[k] # Sentinel
              /\ HasWord(utilIn.lines[k], {"github", "db", "web", "api", "solo"})
    /\ (\E k \in 1..Len(utilIn.lines) : utilIn.lines[k] = Sentinel)
         => utilOut[1] = <<>>

(* C30: a header, a server with the word only and a failed server were
   parsed into two entities. *)
C30_WordOnlyIsConnected ==
  /\ utilIn.ok
  /\ utilIn.lines =
       << <<"Checking", " ", "MCP", " ", "server", " ", "health", "...">>,
          <<"api", ":", " ", "Connected">>,
          <<"db", ":", " ", "cmd", " ", "-", " ", "CROSS", " ", "Failed">> >>
  /\ utilOut = << << [name |-> <<"api">>, connected |-> TRUE],
                     [name |-> <<"db">>, connected |-> FALSE] >> >>

(* C32: reopen-session for a session that has a process-map entry spawns
   no PTY, leaves the map and the collection and replies session-reopened;
   for an id without a persisted record it spawns nothing, changes nothing
   and sends no reply; for a persisted session without a map entry it
   spawns exactly one PTY, in the record's worktreePath, puts it in the map
   and replies session-reopened. *)
C32_ReopenGuarded ==
  [][\A sessionId \in RequestIds :
       ReopenSession(sessionId) =>
         /\ persisted' = persisted
         /\ IF sessionId \in DOMAIN active
            THEN /\ ptys' = ptys /\ active' = active
                 /\ sent' = <<[type |-> "session-reopened",
                               sessionId |-> sessionId, data |-> ""]>>
            ELSE IF \A i \in 1..Len(persisted) : persisted[i].id # sessionId
            THEN ptys' = ptys /\ active' = active /\ sent' = <<>>
            ELSE /\ \E p \in DOMAIN ptys' :
                      /\ DOMAIN ptys' = DOMAIN ptys \cup {p}
                      /\ p \notin DOMAIN ptys
                      /\ \A o \in DOMAIN ptys : ptys'[o] = ptys[o]
                      /\ ptys'[p].sessionId = sessionId
                      /\ \E i \in 1..Len(persisted) :
                           /\ persisted[i].id = sessionId
                           /\ ptys'[p].cwd = persisted[i].worktreePath
                      /\ active' = mapSet(active, sessionId, p)
                 /\ sent' = <<[type |-> "session-reopened",
                               sessionId |-> sessionId, data |-> ""]>>]_vars

(* C32, reached: a closed session was reopened once; its second PTY is the
   only one running and is the one in the map. *)
C32_ReopenedOnce ==
  /\ nPtys = 2
  /\ DOMAIN ptys = {2}
  /\ ~ptys[2].isNewSession
  /\ active = mapSet(<<>>, ptys[2].sessionId, 2)
  /\ sent = <<[type |-> "session-reopened",
               sessionId |-> ptys[2].sessionId, data |-> ""]>>

(* C33: a process-map entry exists for a session only while that session's
   PTY process is running, and reopen-session for a session whose shell
   has exited spawns a fresh PTY instead of answering for the dead one. *)
C33_MapEntriesAreRunning ==
  [][/\ \A sessionId \in DOMAIN active' : active'[sessionId] \in DOMAIN ptys'
     /\ \A sessionId \in RequestIds :
          (/\ ReopenSession(sessionId)
           /\ \E i \in 1..Len(persisted) : persisted[i].id = sessionId
           /\ \A p \in DOMAIN ptys : ptys[p].sessionId # sessionId)
          => \E p \in DOMAIN ptys' : ptys'[p].sessionId = sessionId]_vars

(* C34: creating a session never destroys the worktree or the branch of a
   session that is in the persisted collection: what a record's worktree
   path and branch name in the repository, they still name after every
   step of a create-session request. *)
C34_CleanupSparesExistingSessions ==
  [][\A i \in 1..Len(persisted) :
       /\ persisted[i].worktreePath \in worktrees
            => persisted[i].worktreePath \in worktrees'
       /\ branchNameOf(persisted[i].config.projectDir, persisted[i].number)
            \in branches
            => branchNameOf(persisted[i].config.projectDir,
                            persisted[i].number) \in branches']_vars

(* C35: whenever session-created is sent, the persisted collection holds a
   record equal to the replied one, the process map holds for the replied
   id a live PTY of that session running in the record's worktreePath, the
   worktree has been created, and the request that is answered had reached
   git worktree add: worktree, record, PTY, reply, in this order. *)
C35_RepliedSessionIsStoredAndRunning ==
  [][\A k \in 1..Len(sent') :
       (sent' # sent /\ sent'[k].type = "session-created") =>
         LET sessionId == sent'[k].sessionId
             record == sent'[k].data
         IN  /\ \E i \in 1..Len(persisted') : persisted'[i] = record
             /\ record.id = sessionId
             /\ sessionId \in DOMAIN active'
             /\ active'[sessionId] \in DOMAIN ptys'
             /\ ptys'[active'[sessionId]].sessionId = sessionId
             /\ ptys'[active'[sessionId]].cwd = record.worktreePath
             /\ record.worktreePath \in worktrees'
             /\ \E c \in creating \ creating' :
                  c.sessionId = sessionId /\ c.pc \in {"add", "added"}]_vars

(* C39: once the Create button has been disabled by a click that sent
   create-session, it is enabled again whatever the answer of the main
   process is, session-created or session-error: the button is disabled only
   while the answer to a create-session request is still outstanding. *)
C39_CreateButtonReenabled == form.awaitingReply \/ form.createEnabled

isLiveSession(u, id) ==
  \E i \in 1..Len(u.sessions) :
    /\ u.sessions[i].id = id
    /\ u.sessions[i].hasActivePty
    /\ u.sessions[i].terminal

(* C36: after every renderer step activeSessionId is null or the id of a
   session of the session map that has hasActivePty = true and a terminal;
   and a step after which the session that was active is closed or deleted
   leaves another session with an active PTY active if there is one and
   activeSessionId = null otherwise. *)
C36_ActiveSessionIsLive ==
  [][/\ ui'.activeSessionId # NoSession =>
           isLiveSession(ui', ui'.activeSessionId)
     /\ (ui.activeSessionId # NoSession
           /\ ~isLiveSession(ui', ui.activeSessionId)) =>
          IF \E i \in 1..Len(ui'.sessions) : ui'.sessions[i].hasActivePty
          THEN /\ ui'.activeSessionId # ui.activeSessionId
               /\ isLiveSession(ui', ui'.activeSessionId)
          ELSE ui'.activeSessionId = NoSession]_vars

(* The shown session has just been closed and another one took its place. *)
C36_ClosedActiveAndSwitched ==
  /\ ui.activeSessionId # NoSession
  /\ \E k \in 1..Len(ui.requests) :
       /\ ui.requests[k].type = "close-session"
       /\ ui.requests[k].sessionId # ui.activeSessionId
  /\ \E k \in 1..Len(ui.requests) :
       /\ ui.requests[k].type = "list-mcp-servers"
       /\ ui.requests[k].sessionId = ui.activeSessionId

(* C37: the tab of the active session is neither unread nor activity. *)
C37_ActiveTabIsClean ==
  \A i \in 1..Len(ui.sessions) :
    ui.sessions[i].id = ui.activeSessionId =>
      ~ui.sessions[i].unread /\ ~ui.sessions[i].activity

(* The active session was switched to while its activity timer was
   running. *)
C37_ActiveWithPendingTimeout ==
  /\ ui.activeSessionId # NoSession
  /\ ui.timeouts[ui.activeSessionId] > 0

(* C38: a tab is unread only if output or a bell of its session arrived
   while the session was not the active one and after it was last switched
   to. *)
C38_UnreadOnlyAfterNewOutput ==
  \A i \in 1..Len(ui.sessions) :
    ui.sessions[i].unread => ui.sessions[i].id \in ui.outputSinceView

(* C31: a listing replaces what was there and is never merged with it.
   When the last line of a complete listing has been fed to the poller of a
   session, the result of the poller and the servers of the message it
   sends are exactly the entities of that listing, whatever the listing
   before it contained; and when the renderer receives a message of the
   active session, the list it holds is exactly the servers of the
   message. *)
C31_ListingsReplace ==
  [][/\ \A id \in DOMAIN pollers \cap DOMAIN pollers' :
          (pollers'[id] # pollers[id] /\ pollers'[id].complete) =>
            /\ pollers'[id].result = parseStatusLines(pollers'[id].listing)
            /\ ui'.mcpEvents # <<>>
            /\ ui'.mcpEvents[Len(ui'.mcpEvents)] =
                 [sessionId |-> id, servers |-> pollers'[id].result]
     /\ (/\ ui.mcpEvents # <<>>
         /\ ui'.mcpEvents = Tail(ui.mcpEvents)
         /\ Head(ui.mcpEvents).sessionId = ui.activeSessionId) =>
          ui'.mcpServers = Head(ui.mcpEvents).servers]_vars

(* The second of two complete listings of the active session, which omits
   an entity of the first, has been received and is what the list shows. *)
C31_SecondListingShown ==
  \E id \in DOMAIN pollers :
    /\ pollers[id].complete
    /\ pollers[id].omits
    /\ pollers[id].result # <<>>
    /\ ui.activeSessionId = id
    /\ ui.mcpOf = id
    /\ ui.mcpEvents = <<>>
    /\ ui.mcpServers = pollers[id].result

hasRequest(u, type, sessionId) ==
  \E k \in 1..Len(u.requests) :
    u.requests[k] = [type |-> type, sessionId |-> sessionId]

(* C40: the server list stems from the active session.  After every step,
   a list that is not empty while a session is active was taken from a
   message of that session; and a step that makes another session the
   active one leaves the list empty and requests the servers of that
   session. *)
C40_ServerListOfActiveSession ==
  [][/\ (ui'.mcpServers # <<>> /\ ui'.activeSessionId # NoSession) =>
          ui'.mcpOf = ui'.activeSessionId
     /\ (ui'.activeSessionId # ui.activeSessionId
           /\ ui'.activeSessionId # NoSession) =>
          /\ ui'.mcpServers = <<>>
          /\ hasRequest(ui', "list-mcp-servers", ui'.activeSessionId)]_vars

(* A message of a session that is not the active one has arrived while the
   list showed the servers of the active session. *)
C40_OtherSessionsListDropped ==
  /\ ui.mcpIgnored
  /\ ui.mcpServers # <<>>
  /\ ui.activeSessionId # NoSession
  /\ ui.mcpOf = ui.activeSessionId

====
